---- MODULE Spec2Model ----
(***************************************************************************)
(* Model of pycompss/runtime/management/object_tracker.py: the             *)
(* ObjectTracker class, its tables and every public operation, together    *)
(* with the calling program that creates objects, drops them (so that      *)
(* their memory address can be reused by a later object) and calls the     *)
(* tracker.                                                                *)
(*                                                                         *)
(* A Python dictionary is a function whose DOMAIN is its key set; a Python *)
(* set is a set.  An operation that raises keeps the assignments it made   *)
(* before raising, exactly as the Python code does: every operator that    *)
(* models a method returns a record [t, ret, err, fresh] - the tracker     *)
(* after the call, the value returned, the exception raised (NoError when  *)
(* it returned) and the identifier it generated (None when it generated    *)
(* none).                                                                  *)
(***************************************************************************)
EXTENDS Integers, Sequences, FiniteSets, TLC

VARIABLES file_names, pending_to_synchronize, written_objects, current_id,
          runtime_id, obj_id_to_obj, address_to_obj_id, reporting,
          reporting_info,
          held,
          last, issued, first_track,
          pc, frame,
          wpc, task, task_args, files, trace, wlocal,
          profile

tracker_vars == <<file_names, pending_to_synchronize, written_objects,
                  current_id, runtime_id, obj_id_to_obj, address_to_obj_id,
                  reporting, reporting_info>>

vars == <<file_names, pending_to_synchronize, written_objects, current_id,
          runtime_id, obj_id_to_obj, address_to_obj_id, reporting,
          reporting_info, held, last, issued, first_track, pc, frame,
          wpc, task, task_args, files, trace, wlocal, profile>>

\* The state of the TaskWorker that runs one task on the worker side.
\* profile is the profile function of the interpreter (sys.getprofile), the
\* hook of the tracing library.
worker_vars == <<wpc, task, task_args, files, trace, wlocal, profile>>

\* The position and the local variables of every thread that is inside a
\* tracker method.
thread_vars == <<pc, frame>>

-----------------------------------------------------------------------------
(* Bounds of the model.                                                    *)

\* Number of distinct objects the calling program creates.
NObj == 2

\* The calls that would push current_id beyond MaxId + 1 are not taken.
MaxId == 2

\* The calls that would make reporting_info longer than MaxReports are not
\* taken.
MaxReports == 2

Objects == {<<"obj", k>> : k \in 1..NObj}

\* The values uuid.uuid1() may give to runtime_id at construction.
RuntimeIds == {"uuid_a"}

\* Python's None, as a value returned, a file name, an identifier or an object.
None == <<>>

\* The err field of a call that returned normally.
NoError == "NoError"

-----------------------------------------------------------------------------
(* Python helpers.                                                         *)

Range(f) == {f[x] : x \in DOMAIN f}

\* dict.pop(k) / del d[k] on a key that is present.
Pop(f, k) == [x \in DOMAIN f \ {k} |-> f[x]]

\* d[k] = v
Put(f, k, v) == [x \in DOMAIN f \cup {k} |-> IF x = k THEN v ELSE f[x]]

EmptyDict == [x \in {} |-> None]

\* id(obj): there are two memory addresses, and object k lives at address
\* k % 2; an object can only be created once every earlier object at its
\* address has been garbage-collected.
get_object_address(obj) == obj[2] % 2

\* "%s-%d" % (self.runtime_id, self.current_id): the pair of its two fields.
format_obj_id(rid, cur) == <<rid, cur>>

\* The directory given by pycompss.runtime.commons.get_temporary_directory.
get_temporary_directory == <<"tmp_dir">>

\* "%s/%s" % (get_temporary_directory(), str(obj_id)): a path is the
\* sequence of its components.
format_file_name(obj_id) == <<get_temporary_directory, obj_id>>

\* str.replace(old, new) on a path: every component equal to old becomes new.
str_replace(s, old, new) ==
    [k \in DOMAIN s |-> IF s[k] = old THEN new ELSE s[k]]

Result(t, ret, err, fresh) == [t |-> t, ret |-> ret, err |-> err, fresh |-> fresh]

-----------------------------------------------------------------------------
(* The tracker object.                                                     *)

\* The fields of self in the current state.
Tracker ==
    [file_names |-> file_names,
     pending_to_synchronize |-> pending_to_synchronize,
     written_objects |-> written_objects,
     current_id |-> current_id,
     runtime_id |-> runtime_id,
     obj_id_to_obj |-> obj_id_to_obj,
     address_to_obj_id |-> address_to_obj_id,
     reporting |-> reporting,
     reporting_info |-> reporting_info]

\* ObjectTracker.__init__
init_tracker(rid) ==
    [file_names |-> EmptyDict,
     pending_to_synchronize |-> {},
     written_objects |-> {},
     current_id |-> 1,
     runtime_id |-> rid,
     obj_id_to_obj |-> EmptyDict,
     address_to_obj_id |-> EmptyDict,
     reporting |-> FALSE,
     reporting_info |-> <<>>]

\* ObjectTracker.is_tracked
is_tracked(t, obj) ==
    LET address == get_object_address(obj)
    IN  IF address \in DOMAIN t.address_to_obj_id
        THEN t.address_to_obj_id[address]
        ELSE None

\* ObjectTracker.__update_report__ (the time stamp is left out: only the
\* table sizes are recorded).
update_report(t) ==
    [t EXCEPT !.reporting_info =
        Append(@, <<Cardinality(DOMAIN t.file_names),
                    Cardinality(t.pending_to_synchronize),
                    Cardinality(t.written_objects),
                    Cardinality(DOMAIN t.obj_id_to_obj),
                    Cardinality(DOMAIN t.address_to_obj_id)>>)]

\* ObjectTracker.report_now
report_now(t) == IF t.reporting THEN update_report(t) ELSE t

\* ObjectTracker.enable_report
enable_report(t) == report_now([t EXCEPT !.reporting = TRUE])

\* ObjectTracker.clean_report
clean_report(t) == [t EXCEPT !.reporting_info = <<>>]

\* _register_object without "self.current_id += 1".
register_object_no_increment(t, obj, assign_new_key, force_insertion) ==
    LET identifier == is_tracked(t, obj)
        address == get_object_address(obj)
        new_id == format_obj_id(t.runtime_id, t.current_id)
    IN  IF identifier # None /\ ~force_insertion
        THEN Result(t, identifier, NoError, None)
        ELSE LET t1 == IF identifier # None
                       THEN [t EXCEPT !.obj_id_to_obj = Pop(@, identifier),
                                      !.address_to_obj_id = Pop(@, address)]
                       ELSE t
             IN  Result([t1 EXCEPT !.obj_id_to_obj = Put(@, new_id, obj),
                                   !.address_to_obj_id = Put(@, address, new_id)],
                        new_id, NoError, new_id)

\* ObjectTracker._register_object
register_object(t, obj, assign_new_key, force_insertion) ==
    LET identifier == is_tracked(t, obj)
        address == get_object_address(obj)
        new_id == format_obj_id(t.runtime_id, t.current_id)
    IN  IF identifier # None /\ ~force_insertion
        THEN Result(t, identifier, NoError, None)
        ELSE IF identifier # None /\ identifier \notin DOMAIN t.obj_id_to_obj
        THEN Result(t, None, "KeyError", None)
        ELSE LET t1 == IF identifier # None
                       THEN [t EXCEPT !.obj_id_to_obj = Pop(@, identifier),
                                      !.address_to_obj_id = Pop(@, address)]
                       ELSE t
             IN  IF assign_new_key
                 THEN Result([t1 EXCEPT !.current_id = @ + 1,
                                        !.obj_id_to_obj = Put(@, new_id, obj),
                                        !.address_to_obj_id = Put(@, address, new_id)],
                             new_id, NoError, new_id)
                 ELSE Result(t1, None, NoError, None)

\* ObjectTracker._set_file_name
set_file_name(t, obj_id, filename, written) ==
    [t EXCEPT !.file_names = Put(@, obj_id, filename),
              !.written_objects = IF written THEN @ \cup {obj_id} ELSE @]

\* ObjectTracker.set_pending_to_synchronize
set_pending_to_synchronize(t, obj_id) ==
    [t EXCEPT !.pending_to_synchronize = @ \cup {obj_id}]

\* ObjectTracker._delete_file_name
delete_file_name(t, obj_id) ==
    IF obj_id \in DOMAIN t.file_names
    THEN Result([t EXCEPT !.file_names = Pop(@, obj_id)], None, NoError, None)
    ELSE Result(t, None, "KeyError", None)

\* ObjectTracker._remove_from_pending_to_synchronize
remove_from_pending_to_synchronize(t, obj_id) ==
    IF obj_id \in t.pending_to_synchronize
    THEN Result([t EXCEPT !.pending_to_synchronize = @ \ {obj_id}], None, NoError, None)
    ELSE Result(t, None, "KeyError", None)

\* _pop_object_id without "self.address_to_obj_id.pop(address)".
pop_object_id_keeps_address(t, obj_id) ==
    IF obj_id \notin DOMAIN t.obj_id_to_obj
    THEN Result(t, None, "KeyError", None)
    ELSE Result([t EXCEPT !.obj_id_to_obj = Pop(@, obj_id)], None, NoError, None)

\* ObjectTracker._pop_object_id
pop_object_id(t, obj_id) ==
    IF obj_id \notin DOMAIN t.obj_id_to_obj
    THEN Result(t, None, "KeyError", None)
    ELSE LET obj == t.obj_id_to_obj[obj_id]
             address == get_object_address(obj)
             t1 == [t EXCEPT !.obj_id_to_obj = Pop(@, obj_id)]
         IN  IF address \in DOMAIN t1.address_to_obj_id
             THEN Result([t1 EXCEPT !.address_to_obj_id = Pop(@, address)],
                         None, NoError, None)
             ELSE Result(t1, None, "KeyError", None)

\* track that registers with force_insertion, as update_mapping does.
track_forced(t, obj, collection) ==
    LET r == register_object(t, obj, TRUE, TRUE)
        obj_id == r.ret
        file_name == IF collection THEN None ELSE format_file_name(obj_id)
        t1 == IF collection
              THEN r.t
              ELSE set_pending_to_synchronize(
                       set_file_name(r.t, obj_id, file_name, FALSE), obj_id)
        t2 == [t1 EXCEPT !.address_to_obj_id =
                             Put(@, get_object_address(obj), obj_id)]
    IN  Result(report_now(t2), <<obj_id, file_name>>, NoError, r.fresh)

\* track that takes the non-collection branch whatever the flag.
track_ignores_collection(t, obj, collection) ==
    LET r == register_object(t, obj, TRUE, FALSE)
        obj_id == r.ret
        file_name == format_file_name(obj_id)
        t1 == set_pending_to_synchronize(
                  set_file_name(r.t, obj_id, file_name, FALSE), obj_id)
        t2 == [t1 EXCEPT !.address_to_obj_id =
                             Put(@, get_object_address(obj), obj_id)]
    IN  Result(report_now(t2), <<obj_id, file_name>>, NoError, r.fresh)

\* ObjectTracker.track
track(t, obj, collection) ==
    LET r == register_object(t, obj, TRUE, FALSE)
        obj_id == r.ret
        file_name == IF collection THEN None ELSE format_file_name(obj_id)
        t1 == IF collection
              THEN r.t
              ELSE set_pending_to_synchronize(
                       set_file_name(r.t, obj_id, file_name, FALSE), obj_id)
        t2 == [t1 EXCEPT !.address_to_obj_id =
                             Put(@, get_object_address(obj), obj_id)]
        t3 == IF t2.reporting THEN report_now(t2) ELSE t2
    IN  Result(t3, <<obj_id, file_name>>, NoError, r.fresh)

\* ObjectTracker.not_track
not_track(t, collection) ==
    LET obj_id == format_obj_id(t.runtime_id, t.current_id)
        file_name == IF collection THEN None ELSE format_file_name(obj_id)
    IN  Result([t EXCEPT !.current_id = @ + 1], <<obj_id, file_name>>, NoError, obj_id)

\* stop_tracking without the "if obj_id is not None" test.
stop_tracking_unguarded(t, obj, collection) ==
    LET obj_id == is_tracked(t, obj)
    IN  IF collection
        THEN LET r == pop_object_id(t, obj_id)
             IN  IF r.err # NoError THEN r
                 ELSE Result(report_now(r.t), None, NoError, None)
        ELSE LET r1 == delete_file_name(t, obj_id)
                 r2 == remove_from_pending_to_synchronize(r1.t, obj_id)
                 r3 == pop_object_id(r2.t, obj_id)
             IN  IF r1.err # NoError THEN r1
                 ELSE IF r2.err # NoError THEN r2
                 ELSE IF r3.err # NoError THEN r3
                 ELSE Result(report_now(r3.t), None, NoError, None)

\* ObjectTracker.stop_tracking
stop_tracking(t, obj, collection) ==
    LET obj_id == is_tracked(t, obj)
    IN  IF obj_id = None
        THEN Result(report_now(t), None, NoError, None)
        ELSE IF collection
        THEN LET r == pop_object_id(t, obj_id)
             IN  IF r.err # NoError THEN r
                 ELSE Result(report_now(r.t), None, NoError, None)
        ELSE LET r1 == delete_file_name(t, obj_id)
                 r2 == remove_from_pending_to_synchronize(r1.t, obj_id)
                 r3 == pop_object_id(r2.t, obj_id)
             IN  IF r1.err # NoError THEN r1
                 ELSE IF r2.err # NoError THEN r2
                 ELSE IF r3.err # NoError THEN r3
                 ELSE Result(report_now(r3.t), None, NoError, None)

\* ObjectTracker.get_file_name
get_file_name(t, obj_id) ==
    IF obj_id \in DOMAIN t.file_names
    THEN Result(t, t.file_names[obj_id], NoError, None)
    ELSE Result(t, None, "KeyError", None)

\* pop_written_obj with written_objects.discard(obj_id) in place of remove.
pop_written_obj_discard(t, obj_id) ==
    get_file_name([t EXCEPT !.written_objects = @ \ {obj_id}], obj_id)

\* pop_written_obj that also takes the identifier out of
\* pending_to_synchronize.
pop_written_obj_synchronized(t, obj_id) ==
    IF obj_id \notin t.written_objects
    THEN Result(t, None, "KeyError", None)
    ELSE get_file_name([t EXCEPT !.written_objects = @ \ {obj_id},
                                 !.pending_to_synchronize = @ \ {obj_id}],
                       obj_id)

\* ObjectTracker.pop_written_obj
pop_written_obj(t, obj_id) ==
    IF obj_id \notin t.written_objects
    THEN Result(t, None, "KeyError", None)
    ELSE get_file_name([t EXCEPT !.written_objects = @ \ {obj_id}], obj_id)

\* update_mapping that gives the new identifier the old file name unchanged.
update_mapping_no_replace(t, obj_id, obj) ==
    LET r == register_object(t, obj, TRUE, TRUE)
        g == get_file_name(r.t, obj_id)
    IN  IF r.err # NoError THEN r
        ELSE IF g.err # NoError THEN Result(r.t, None, g.err, r.fresh)
        ELSE Result(set_file_name(r.t, r.ret, g.ret, TRUE), None, NoError, r.fresh)

\* ObjectTracker.update_mapping
update_mapping(t, obj_id, obj) ==
    LET r == register_object(t, obj, TRUE, TRUE)
        new_obj_id == r.ret
        g == get_file_name(r.t, obj_id)
        old_file_name == g.ret
        new_file_name == str_replace(old_file_name, obj_id, new_obj_id)
    IN  IF r.err # NoError THEN r
        ELSE IF g.err # NoError THEN Result(r.t, None, g.err, r.fresh)
        ELSE Result(set_file_name(r.t, new_obj_id, new_file_name, TRUE),
                    None, NoError, r.fresh)

\* clean_object_tracker that also restarts the identifier counter.
clean_object_tracker_resets_counter(t) ==
    Result(report_now([t EXCEPT !.pending_to_synchronize = {},
                                !.file_names = EmptyDict,
                                !.written_objects = {},
                                !.obj_id_to_obj = EmptyDict,
                                !.address_to_obj_id = EmptyDict,
                                !.current_id = 1]),
           None, NoError, None)

\* clean_object_tracker without "self.written_objects.clear()".
clean_object_tracker_keeps_written(t) ==
    Result(report_now([t EXCEPT !.pending_to_synchronize = {},
                                !.file_names = EmptyDict,
                                !.obj_id_to_obj = EmptyDict,
                                !.address_to_obj_id = EmptyDict]),
           None, NoError, None)

\* ObjectTracker.clean_object_tracker
clean_object_tracker(t) ==
    Result(report_now([t EXCEPT !.pending_to_synchronize = {},
                                !.file_names = EmptyDict,
                                !.written_objects = {},
                                !.obj_id_to_obj = EmptyDict,
                                !.address_to_obj_id = EmptyDict]),
           None, NoError, None)

-----------------------------------------------------------------------------
(* pycompss/runtime/task/worker.py: the TaskWorker.                        *)
(*                                                                         *)
(* A Parameter is a record; its content is a string for a single value (an *)
(* object, a path, a persistent object) and a sequence for a collection.   *)
(* The exchange files are a function from file names to what they hold:    *)
(* <<"pickle", c>> for the serialization of c, <<"bytes", b>> for a plain  *)
(* file.  Every operator that models a method returns the data it changed  *)
(* and err, the exception it raised (NoError when it returned).            *)

\* Python's None where strings are expected, and the empty file name.
PyNone == "None"
NoFile == ""

\* pycompss.runtime.task.parameter.Parameter, as the worker receives it: the
\* lines of a collection's file are kept in manifest, already split.  For a
\* line of a collection file con_type is its third field, the Python type of
\* the element.
TypedParameter(name, content_type, file_name, content, manifest, con_type) ==
    [name |-> name, content_type |-> content_type, file_name |-> file_name,
     content |-> content, collection_content |-> <<>>,
     dict_collection_content |-> <<>>, manifest |-> manifest,
     con_type |-> con_type]

Parameter(name, content_type, file_name, content, manifest) ==
    TypedParameter(name, content_type, file_name, content, manifest, "object")

\* What a method hands back: the parameter and the exception.
Revealed(argument, err) == [arg |-> argument, err |-> err]

\* pycompss.util.storages.persistent.is_psco: only single values can be
\* persistent objects.
is_psco(content_type, content) ==
    /\ content_type \notin {"COLLECTION", "DICT_COLLECTION"}
    /\ content \in {"psco", "psco_a", "psco_a1", "psco_self"}

\* obj.getID() of a persistent object: the identifier it is stored under
\* ("psco" is an object that make_persistent() stored during the task).
getID(obj) ==
    CASE obj = "psco_a" -> "id_a"
      [] obj = "psco_a1" -> "id_a1"
      [] obj = "psco_self" -> "id_self"
      [] OTHER -> "id_new"

\* The tuples a user function may return: Python's (value, value2),
\* (psco, value) and (value,).  Every other object is a single value.
is_tuple(obj) == obj \in {"pair", "psco_pair", "single"}

tuple_elements(obj) ==
    CASE obj = "pair" -> <<"value", "value2">>
      [] obj = "psco_pair" -> <<"psco", "value">>
      [] obj = "single" -> <<"value">>

\* pycompss.util.objects.properties.create_object_by_con_type: an empty
\* instance of the type with that name.
create_object_by_con_type(con_type) == con_type \o "()"

\* pycompss.worker.commons.worker.build_task_parameter for one line
\* "data_type content_file content_type" of a collection file.
build_task_parameter(line) ==
    IF line.content_type = "EXTERNAL_PSCO"
    THEN Parameter(line.name, line.content_type, NoFile, line.content,
                   line.manifest)
    ELSE Parameter(line.name, line.content_type, line.file_name, PyNone,
                   line.manifest)

\* deserialize_from_file: the file must exist and hold a serialization.
can_deserialize(fs, f_name) ==
    /\ f_name \in DOMAIN fs
    /\ fs[f_name][1] = "pickle"

deserialize_from_file(fs, f_name) == fs[f_name][2]

\* serialize_to_file
serialize_to_file(fs, content, f_name) == Put(fs, f_name, <<"pickle", content>>)

\* shutil.copyfile(src, dst)
copyfile(fs, src, dst) == Put(fs, dst, fs[src])

\* storage.api.getByID for one identifier
getByID(storage, identifier) ==
    CASE identifier = "id_a" -> "psco_a"
      [] identifier = "id_a1" -> "psco_a1"
      [] OTHER -> "psco_self"

\* TaskCommons.get_default_direction: a parameter the decorator does not
\* name is an IN object.
get_default_direction ==
    [direction |-> "IN", content_type |-> PyNone,
     is_file_collection |-> FALSE, depth |-> 1]

\* self.decorator_arguments.get(name, self.get_default_direction(name))
decorator_argument(dec, name) ==
    IF name \in DOMAIN dec.args THEN dec.args[name] ELSE get_default_direction

\* TaskWorker.is_parameter_an_object
is_parameter_an_object(dec, name) ==
    IF name \in DOMAIN dec.args
    THEN dec.args[name].content_type \in
             {"COLLECTION", "DICT_COLLECTION", "EXTERNAL_STREAM", PyNone}
    ELSE TRUE

\* TaskWorker.is_parameter_file_collection
is_parameter_file_collection(dec, name) ==
    IF name \in DOMAIN dec.args
    THEN dec.args[name].is_file_collection
    ELSE FALSE

\* d[k] = v on a Python dict kept as the sequence of its (key, value) pairs in
\* the order of insertion: an equal key keeps its place and takes the value.
dict_setitem(d, k, v) ==
    IF \E j \in DOMAIN d : d[j][1] = k
    THEN [j \in DOMAIN d |-> IF d[j][1] = k THEN <<d[j][1], v>> ELSE d[j]]
    ELSE Append(d, <<k, v>>)

RECURSIVE retrieve_content(_, _, _, _)
RECURSIVE retrieve_collection(_, _, _, _, _, _)
RECURSIVE retrieve_dict_collection(_, _, _, _, _, _)

\* pycompss.util.mpi.helper.rank_distributor: the offsets of the collection
\* that the layout gives to the MPI process of this worker.
rank_distributor(tw, layout) ==
    IF tw.rank \in DOMAIN layout THEN layout[tw.rank] ELSE {}

\* A loop that skips no line.
skips_no_line(in_mpi_collection_env, rank_distribution, i) == FALSE

\* Whether the loop skips the line at offset i (lines 346-348): in an MPI
\* task with a layout for the collection, the offsets of other ranks.
skips_line(in_mpi_collection_env, rank_distribution, i) ==
    in_mpi_collection_env /\ i \notin rank_distribution

\* A loop that always appends the element to the content.
never_replaces_collection(in_mpi_collection_env, rank_distr_len) == FALSE

\* Whether the element replaces the collection (lines 384, 398, 411, 419):
\* only one element is used in this MPI rank.
replaces_collection(in_mpi_collection_env, rank_distr_len) ==
    in_mpi_collection_env /\ rank_distr_len = 1

\* A test that knows the layers of an OUT collection by their declared
\* direction only.
is_out_layer_declared(_col_dir, _col_dep) == _col_dir = "OUT"

\* Whether the layer is one of an OUT collection (lines 372-373): it is
\* declared OUT, or it has no direction and a depth is left.
is_out_layer(_col_dir, _col_dep) ==
    _col_dir = "OUT" \/ (_col_dir = PyNone /\ _col_dep > 0)

\* TaskWorker.retrieve_content, the loop over the lines of a collection file
\* from line i on.  in_mpi_collection_env tells that the task is an MPI task
\* with a layout for this collection; then the lines whose offset is not in
\* rank_distribution are skipped, and when rank_distribution has one offset
\* the content and the type of the element replace those of the collection.
retrieve_collection(tw, fs, argument, _col_dir, _col_dep, i) ==
    LET layouts == tw.compss_collections_layouts
        in_mpi_collection_env == /\ tw.compss_python_MPI
                                 /\ DOMAIN layouts # {}
                                 /\ argument.name \in DOMAIN layouts
        rank_distribution == IF in_mpi_collection_env
                             THEN rank_distributor(tw, layouts[argument.name])
                             ELSE {}
        single == replaces_collection(in_mpi_collection_env,
                                      Cardinality(rank_distribution))
    IN  IF i > Len(argument.manifest)
        THEN Revealed(argument, NoError)
        ELSE IF skips_line(in_mpi_collection_env, rank_distribution, i - 1)
        THEN retrieve_collection(tw, fs, argument, _col_dir, _col_dep, i + 1)
        ELSE IF is_parameter_file_collection(tw.decorator_arguments,
                                             argument.name)
        THEN LET content_file == argument.manifest[i].file_name
             IN  retrieve_collection(tw, fs,
                     IF single
                     THEN [argument EXCEPT
                              !.content = content_file,
                              !.content_type = "FILE",
                              !.collection_content = Append(@, content_file)]
                     ELSE [argument EXCEPT
                              !.content = Append(@, content_file),
                              !.collection_content = Append(@, content_file)],
                     _col_dir, _col_dep, i + 1)
        ELSE LET sub_arg == build_task_parameter(argument.manifest[i])
                 r == IF is_out_layer(_col_dir, _col_dep)
                      THEN IF _col_dep = 1
                           THEN Revealed([sub_arg EXCEPT !.content =
                                    create_object_by_con_type(
                                        argument.manifest[i].con_type)],
                                    NoError)
                           ELSE retrieve_content(tw, fs, sub_arg, _col_dep - 1)
                      ELSE retrieve_content(tw, fs, sub_arg, 0)
             IN  IF r.err # NoError
                 THEN Revealed(argument, r.err)
                 ELSE retrieve_collection(tw, fs,
                          IF single
                          THEN [argument EXCEPT
                                   !.content = r.arg.content,
                                   !.content_type = r.arg.content_type,
                                   !.collection_content = Append(@, r.arg)]
                          ELSE [argument EXCEPT
                                   !.content = Append(@, r.arg.content),
                                   !.collection_content = Append(@, r.arg)],
                          _col_dir, _col_dep, i + 1)

\* TaskWorker.retrieve_content, the loop over the entries (a key line and a
\* value line) of a dictionary collection file from entry i on.
retrieve_dict_collection(tw, fs, argument, _dict_col_dir, _dict_col_dep, i) ==
    IF i > Len(argument.manifest)
    THEN Revealed(argument, NoError)
    ELSE LET sub_arg_key == build_task_parameter(argument.manifest[i][1])
             sub_arg_value == build_task_parameter(argument.manifest[i][2])
             out == _dict_col_dir = "OUT"
                    \/ (_dict_col_dir = PyNone /\ _dict_col_dep > 0)
             rk == IF out
                   THEN IF _dict_col_dep = 1
                        THEN Revealed([sub_arg_key EXCEPT !.content =
                                 create_object_by_con_type(
                                     argument.manifest[i][1].con_type)],
                                 NoError)
                        ELSE retrieve_content(tw, fs, sub_arg_key,
                                              _dict_col_dep - 1)
                   ELSE retrieve_content(tw, fs, sub_arg_key, 0)
             rv == IF out
                   THEN IF _dict_col_dep = 1
                        THEN Revealed([sub_arg_value EXCEPT !.content =
                                 create_object_by_con_type(
                                     argument.manifest[i][2].con_type)],
                                 NoError)
                        ELSE retrieve_content(tw, fs, sub_arg_value,
                                              _dict_col_dep - 1)
                   ELSE retrieve_content(tw, fs, sub_arg_value, 0)
         IN  IF rk.err # NoError THEN Revealed(argument, rk.err)
             ELSE IF rv.err # NoError THEN Revealed(argument, rv.err)
             ELSE retrieve_dict_collection(tw, fs,
                      [argument EXCEPT
                          !.content = dict_setitem(@, rk.arg.content,
                                                   rv.arg.content),
                          !.dict_collection_content = Append(@, <<rk.arg, rv.arg>>)],
                      _dict_col_dir, _dict_col_dep, i + 1)

\* TaskWorker.retrieve_content
retrieve_content(tw, fs, argument, depth) ==
    LET dec == tw.decorator_arguments
        name == argument.name
        declared == name \in DOMAIN dec.args
    IN  CASE argument.content_type = "FILE" ->
                 IF is_parameter_an_object(dec, name)
                 THEN IF can_deserialize(fs, argument.file_name)
                      THEN Revealed([argument EXCEPT !.content =
                               deserialize_from_file(fs, argument.file_name)],
                               NoError)
                      ELSE Revealed(argument, "SerializerException")
                 ELSE Revealed([argument EXCEPT !.content = argument.file_name],
                               NoError)
          [] argument.content_type = "COLLECTION" ->
                 retrieve_collection(tw, fs,
                     [argument EXCEPT !.content = <<>>,
                                      !.collection_content = <<>>],
                     IF declared THEN dec.args[name].direction ELSE PyNone,
                     IF declared THEN dec.args[name].depth ELSE depth, 1)
          [] argument.content_type = "DICT_COLLECTION" ->
                 retrieve_dict_collection(tw, fs,
                     [argument EXCEPT !.content = <<>>,
                                      !.dict_collection_content = <<>>],
                     IF declared THEN dec.args[name].direction ELSE PyNone,
                     IF declared THEN dec.args[name].depth ELSE depth, 1)
          [] argument.content_type = "EXTERNAL_PSCO"
             /\ ~tw.storage_supports_pipelining ->
                 IF argument.content \in tw.storage
                 THEN Revealed([argument EXCEPT !.content =
                          getByID(tw.storage, argument.content)], NoError)
                 ELSE Revealed(argument, "StorageException")
          [] OTHER -> Revealed(argument, NoError)

\* The most results a task of the model declares.
MaxReturns == 2

\* The name the engine gives to result i, and the file it is exchanged in.
ReturnName(i) == "$return_" \o <<"0", "1", "2", "3">>[i + 1]
ReturnFile(i) == IF i = 0 THEN "ret.f"
                 ELSE "ret" \o <<"0", "1", "2", "3">>[i + 1] \o ".f"

\* pycompss.runtime.task.arguments.is_return
is_return(name) == name \in {ReturnName(i) : i \in 0..(MaxReturns - 1)}

\* isinstance(arg, Parameter): the receiver of a method arrives as the
\* object itself.  The model keeps it in a record of the same shape, named
\* "self", whose content is the object.
isinstance_Parameter(arg) == arg.name # "self"

\* No exception object (Python's None in compss_exception).
NoException == [type |-> PyNone, target_direction |-> PyNone]

\* TaskWorker.reveal_objects, the batched resolution: with a storage that
\* supports pipelining the objects are fetched in one call, and the loop that
\* follows stores each Parameter in the fetched object (obj.content = value),
\* so the parameters themselves stay as they were.  x.content_type is read
\* from every argument, the receiver included, which has no such attribute.
reveal_pipelined(tw, args) ==
    LET identifiers == {args[i].content :
                           i \in {j \in DOMAIN args :
                                     args[j].content_type = "EXTERNAL_PSCO"}}
    IN  IF ~tw.storage_supports_pipelining THEN Revealed(args, NoError)
        ELSE IF \E i \in DOMAIN args : ~isinstance_Parameter(args[i])
        THEN Revealed(args, "AttributeError")
        ELSE IF identifiers \subseteq tw.storage THEN Revealed(args, NoError)
        ELSE Revealed(args, "StorageException")

\* What a body with that effect does to element i of a collection.
effect_on(effect, i) ==
    IF effect = "mutate_one" /\ i > 1 THEN "none" ELSE effect

RECURSIVE user_effect(_, _, _)

\* What the body of the user function does to one revealed argument it was
\* given: nothing, a change in place of every object ("mutate") or of the
\* first object only ("mutate_one"), or make_persistent() on every object
\* ("persist").  Paths, persistent objects and the keys of a dictionary stay
\* as they are.
user_effect(dec, argument, effect) ==
    CASE ~isinstance_Parameter(argument) ->
             [argument EXCEPT !.content =
                 IF effect = "persist" /\ ~is_psco(PyNone, @)
                 THEN "psco" ELSE @]
      [] argument.content_type = "COLLECTION"
      /\ is_parameter_file_collection(dec, argument.name) ->
             argument
      [] argument.content_type = "COLLECTION" ->
             LET cc == [i \in DOMAIN argument.collection_content |->
                           user_effect(dec, argument.collection_content[i],
                                       effect_on(effect, i))]
             IN  [argument EXCEPT !.collection_content = cc,
                                  !.content = [i \in DOMAIN cc |-> cc[i].content]]
      [] argument.content_type = "DICT_COLLECTION" ->
             LET dc == [i \in DOMAIN argument.dict_collection_content |->
                           <<argument.dict_collection_content[i][1],
                             user_effect(dec, argument.dict_collection_content[i][2],
                                         effect_on(effect, i))>>]
             IN  [argument EXCEPT !.dict_collection_content = dc,
                                  !.content = [i \in DOMAIN dc |->
                                      <<dc[i][1].content, dc[i][2].content>>]]
      [] argument.content_type = "FILE"
      /\ is_parameter_an_object(dec, argument.name) ->
             [argument EXCEPT !.content =
                 CASE effect \in {"mutate", "mutate_one"} -> "new"
                   [] effect = "persist" -> "psco"
                   [] OTHER -> @]
      [] OTHER -> argument

\* TaskWorker.manage_exception.  default_values is only tested for truth and
\* handed to manage_defaults when true, so its None is the empty dictionary.
manage_exception(on_failure, defaults) ==
    IF on_failure = "IGNORE"
    THEN [user_returns |-> IF "returns" \in DOMAIN defaults
                           THEN defaults["returns"] ELSE PyNone,
          default_values |-> Pop(defaults, "returns"),
          defaults |-> Pop(defaults, "returns")]
    ELSE [user_returns |-> PyNone, default_values |-> EmptyDict,
          defaults |-> defaults]

\* The files the body writes: with "mutate" it rewrites every file parameter
\* that is not an input.
user_writes(dec, args, fs, effect) ==
    LET paths == {args[i].content :
                     i \in {j \in DOMAIN args :
                               /\ ~is_return(args[j].name)
                               /\ args[j].content_type = "FILE"
                               /\ ~is_parameter_an_object(dec, args[j].name)
                               /\ decorator_argument(dec, args[j].name).direction
                                      # "IN"}}
    IN  IF effect = "mutate"
        THEN [f \in DOMAIN fs \cup paths |->
                 IF f \in paths THEN <<"bytes", "new">> ELSE fs[f]]
        ELSE fs

\* The profile function the tracing library has installed.
TracingHook == "pyextrae"

\* restore_hook of execute_user_code: the hook is taken out for the user
\* code when tracing is on and neither the decorator nor the environment
\* (COMPSS_TRACING_HOOK) asks to keep it.
restore_hook(tw) ==
    /\ tw.compss_tracing
    /\ ~(tw.decorator_arguments.tracing_hook \/ tw.global_tracing_hook)

\* The profile function when execute_user_code is left with err, pro_f
\* being the one at its entry: sys.setprofile(None) before the user code,
\* sys.setprofile(pro_f) at the end of the method, which an exception that
\* leaves the method does not reach.
profile_after(tw, pro_f, err) ==
    IF restore_hook(tw)
    THEN IF err # NoError THEN PyNone ELSE pro_f
    ELSE pro_f

\* TaskWorker.execute_user_code (arguments, files and results; the profile
\* function is in profile_after).  body is what
\* the user function does: its effect on the arguments, then its outcome.
execute_user_code(tw, args, fs, body) ==
    LET dec == tw.decorator_arguments
        args1 == [i \in DOMAIN args |->
                     IF is_return(args[i].name) THEN args[i]
                     ELSE user_effect(dec, args[i], body.effect)]
        fs1 == user_writes(dec, args, fs, body.effect)
        me == manage_exception(tw.on_failure, tw.defaults)
        done == [args |-> args1, files |-> fs1, user_returns |-> body.returns,
                 compss_exception |-> NoException,
                 default_values |-> EmptyDict, defaults |-> tw.defaults,
                 err |-> NoError]
    IN  IF dec.numba
        THEN IF body.outcome = "return"
             THEN done
             ELSE [done EXCEPT !.user_returns = PyNone,
                               !.err = body.outcome]
        ELSE CASE body.outcome = "COMPSsException" ->
                      [done EXCEPT !.user_returns = me.user_returns,
                                   !.default_values = me.default_values,
                                   !.defaults = me.defaults,
                                   !.compss_exception =
                                       [type |-> "COMPSsException",
                                        target_direction |-> dec.target_direction]]
               [] body.outcome = "Exception" ->
                      IF tw.on_failure = "IGNORE"
                      THEN [done EXCEPT !.user_returns = me.user_returns,
                                        !.default_values = me.default_values,
                                        !.defaults = me.defaults]
                      ELSE [done EXCEPT !.user_returns = PyNone,
                                        !.err = "Exception"]
               [] OTHER -> done

RECURSIVE manage_defaults_from(_, _, _, _, _)

\* TaskWorker.manage_defaults, the loop from argument i on.
manage_defaults_from(tw, args, fs, default_values, i) ==
    IF i > Len(args)
    THEN [args |-> args, files |-> fs, err |-> NoError]
    ELSE LET arg == args[i]
         IN  IF ~isinstance_Parameter(arg) \/ is_return(arg.name)
             THEN manage_defaults_from(tw, args, fs, default_values, i + 1)
             ELSE IF arg.name \notin DOMAIN default_values
             THEN [args |-> args, files |-> fs, err |-> "KeyError"]
             ELSE IF is_parameter_an_object(tw.decorator_arguments, arg.name)
             THEN manage_defaults_from(tw,
                      [args EXCEPT ![i].content = default_values[arg.name]],
                      fs, default_values, i + 1)
             ELSE IF default_values[arg.name] \notin DOMAIN fs
             THEN [args |-> args, files |-> fs, err |-> "IOError"]
             ELSE manage_defaults_from(tw, args,
                      copyfile(fs, default_values[arg.name], arg.content),
                      default_values, i + 1)

\* TaskWorker.manage_defaults
manage_defaults(tw, args, fs, default_values) ==
    manage_defaults_from(tw, args, fs, default_values, 1)

\* One pair (content, elem) a collection walker yields.
Leaf(content, elem) == [content |-> content, elem |-> elem]

\* min(len(a), len(b)): where zip(a, b) stops.
ZipLen(a, b) == IF Len(a) <= Len(b) THEN Len(a) ELSE Len(b)

RECURSIVE get_collection_objects(_, _)
RECURSIVE get_collection_objects_from(_, _)

\* __get_collection_objects__, the loop over
\* zip(argument.content, argument.collection_content) from pair i on.
get_collection_objects_from(argument, i) ==
    IF i > ZipLen(argument.content, argument.collection_content)
    THEN <<>>
    ELSE get_collection_objects(argument.content[i],
                                argument.collection_content[i])
         \o get_collection_objects_from(argument, i + 1)

\* __get_collection_objects__
get_collection_objects(content, argument) ==
    IF argument.content_type = "COLLECTION"
    THEN get_collection_objects_from(argument, 1)
    ELSE <<Leaf(content, argument)>>

\* The entry of dict_collection_content that element_parameters_preproc keeps
\* for key content k: the last one whose key Parameter has that content.
KeyEntries(argument, k) ==
    {j \in DOMAIN argument.dict_collection_content :
        argument.dict_collection_content[j][1].content = k}

RECURSIVE get_dict_collection_objects(_, _)
RECURSIVE get_dict_collection_objects_from(_, _)

\* __get_dict_collection_objects__, the loop over the keys of
\* argument.content from key i on: the key and then the value of each.
get_dict_collection_objects_from(argument, i) ==
    IF i > Len(argument.content)
    THEN [objs |-> <<>>, err |-> NoError]
    ELSE LET k == argument.content[i][1]
             v == argument.content[i][2]
         IN  IF KeyEntries(argument, k) = {}
             THEN [objs |-> <<>>, err |-> "KeyError"]
             ELSE LET j == CHOOSE x \in KeyEntries(argument, k) :
                               \A y \in KeyEntries(argument, k) : y <= x
                      e == argument.dict_collection_content[j]
                      rk == get_dict_collection_objects(k, e[1])
                      rv == get_dict_collection_objects(v, e[2])
                      rest == get_dict_collection_objects_from(argument, i + 1)
                  IN  IF rest.err # NoError THEN rest
                      ELSE IF rk.err # NoError THEN rk
                      ELSE IF rv.err # NoError THEN rv
                      ELSE [objs |-> rk.objs \o rv.objs \o rest.objs,
                            err |-> NoError]

\* __get_dict_collection_objects__ (elements_parameters is built for every key
\* before the first pair is yielded, so a missing key raises at once).
get_dict_collection_objects(content, argument) ==
    IF argument.content_type = "DICT_COLLECTION"
    THEN get_dict_collection_objects_from(argument, 1)
    ELSE [objs |-> <<Leaf(content, argument)>>, err |-> NoError]

RECURSIVE serialize_elements(_, _, _)

\* The body of both collection loops of manage_inouts: an element is
\* serialized to its file when it has a file name.
serialize_elements(fs, objs, i) ==
    IF i > Len(objs)
    THEN [files |-> fs, written |-> <<>>]
    ELSE IF objs[i].elem.file_name # NoFile
    THEN LET r == serialize_elements(
                      serialize_to_file(fs, objs[i].content,
                                        objs[i].elem.file_name),
                      objs, i + 1)
         IN  [r EXCEPT !.written = <<objs[i].elem.file_name>> \o @]
    ELSE serialize_elements(fs, objs, i + 1)

\* Whether manage_inouts goes on to serialize arg: the tests at the head of
\* its loop body (lines 742-772).
is_written_back(tw, arg) ==
    LET dec == tw.decorator_arguments
        param == decorator_argument(dec, arg.name)
        _is_col_out == arg.content_type = "COLLECTION" /\ param.direction = "OUT"
        _is_dict_col_out == arg.content_type = "DICT_COLLECTION"
                            /\ param.direction = "OUT"
        _is_inout == param.direction \in {"INOUT", "COMMUTATIVE"}
    IN  /\ isinstance_Parameter(arg)
        /\ is_parameter_an_object(dec, arg.name)
        /\ ~is_parameter_file_collection(dec, arg.name)
        /\ ~(arg.content_type = "EXTERNAL_PSCO"
             \/ is_psco(arg.content_type, arg.content))
        /\ (_is_inout \/ _is_col_out \/ _is_dict_col_out)

RECURSIVE manage_inouts_from(_, _, _, _)

\* TaskWorker.manage_inouts, the loop from argument i on (no MPI).  written is
\* the list of the files it serialized to, in order.
manage_inouts_from(tw, args, fs, i) ==
    IF i > Len(args)
    THEN [files |-> fs, written |-> <<>>, err |-> NoError]
    ELSE LET arg == args[i]
         IN  IF ~is_written_back(tw, arg)
             THEN manage_inouts_from(tw, args, fs, i + 1)
             ELSE IF arg.content_type = "COLLECTION"
             THEN LET s == serialize_elements(fs,
                               get_collection_objects(arg.content, arg), 1)
                      r == manage_inouts_from(tw, args, s.files, i + 1)
                  IN  [r EXCEPT !.written = s.written \o @]
             ELSE IF arg.content_type = "DICT_COLLECTION"
             THEN LET g == get_dict_collection_objects(arg.content, arg)
                      s == serialize_elements(fs, g.objs, 1)
                      r == manage_inouts_from(tw, args, s.files, i + 1)
                  IN  IF g.err # NoError
                      THEN [files |-> fs, written |-> <<>>, err |-> g.err]
                      ELSE [r EXCEPT !.written = s.written \o @]
             ELSE LET r == manage_inouts_from(tw, args,
                               serialize_to_file(fs, arg.content, arg.file_name),
                               i + 1)
                  IN  [r EXCEPT !.written = <<arg.file_name>> \o @]

\* TaskWorker.manage_inouts
manage_inouts(tw, args, fs) == manage_inouts_from(tw, args, fs, 1)

\* TaskWorker.segregate_objects: the return parameters.
ret_params(args) == SelectSeq(args, LAMBDA arg : is_return(arg.name))

\* pycompss.util.serialization.serializer.serialize_to_file_mpienv: the
\* process writes the object to the file.
serialize_to_file_mpienv(fs, content, f_name, rank_zero_reduce) ==
    serialize_to_file(fs, content, f_name)

\* __get_ret_rank__: the return parameter of this MPI process.
get_ret_rank(tw, _ret_params) == <<_ret_params[tw.rank + 1]>>

RECURSIVE serialize_returns(_, _, _, _, _, _)

\* TaskWorker.manage_returns, the loop over zip(user_returns, ret_params)
\* from pair i on.
serialize_returns(tw, num_returns, fs, user_returns, params, i) ==
    IF i > ZipLen(user_returns, params)
    THEN [files |-> fs, written |-> <<>>]
    ELSE LET obj == user_returns[i]
             param == params[i]
         IN  IF param.content_type = "EXTERNAL_PSCO" \/ is_psco(PyNone, obj)
             THEN serialize_returns(tw, num_returns, fs, user_returns, params,
                                    i + 1)
             ELSE LET fs1 == IF tw.compss_python_MPI
                             THEN serialize_to_file_mpienv(fs, obj,
                                      param.file_name, ~(num_returns > 1))
                             ELSE serialize_to_file(fs, obj, param.file_name)
                      r == serialize_returns(tw, num_returns, fs1, user_returns,
                                             params, i + 1)
                  IN  [r EXCEPT !.written = <<param.file_name>> \o @]

\* TaskWorker.manage_returns.  With no declared return user_returns comes
\* back as it is; otherwise it comes back as the list that was paired with
\* the return parameters.  zip raises TypeError on an object that is no
\* tuple.
manage_returns(tw, args, fs, user_returns) ==
    LET num_returns == Len(ret_params(args))
        python_mpi == tw.compss_python_MPI
        wrapped == num_returns = 1 \/ (num_returns > 1 /\ python_mpi)
        params == IF num_returns > 1 /\ python_mpi
                  THEN get_ret_rank(tw, ret_params(args))
                  ELSE ret_params(args)
        same == [files |-> fs, written |-> <<>>, user_returns |-> user_returns,
                 err |-> NoError]
    IN  IF num_returns = 0 THEN same
        ELSE IF ~wrapped /\ ~is_tuple(user_returns)
        THEN [same EXCEPT !.err = "TypeError"]
        ELSE LET returns == IF wrapped THEN <<user_returns>>
                            ELSE tuple_elements(user_returns)
                 r == serialize_returns(tw, num_returns, fs, returns, params, 1)
             IN  [files |-> r.files, written |-> r.written,
                  user_returns |-> returns, err |-> NoError]

RECURSIVE build_collection_types_values(_, _, _)

\* manage_new_types_values.build_collection_types_values; elems_are_str says
\* that the elements are file names (isinstance(_elem, str)).
build_collection_types_values(_arg, direction, elems_are_str) ==
    [i \in 1..ZipLen(_arg.content, _arg.collection_content) |->
        LET _cont == _arg.content[i]
            _elem == _arg.collection_content[i]
        IN  CASE elems_are_str -> <<"FILE", "null", <<>>>>
              [] _elem.content_type = "COLLECTION" ->
                     <<"COLLECTION", "list",
                       build_collection_types_values(_elem, direction, FALSE)>>
              [] /\ _elem.content_type \in {"EXTERNAL_PSCO", "FILE"}
                 /\ is_psco(_elem.content_type, _cont)
                 /\ direction # "IN" ->
                     <<"EXTERNAL_PSCO", getID(_cont), <<>>>>
              [] OTHER -> <<_elem.content_type, "null", <<>>>>]

\* pycompss.runtime.task.parameter.get_compss_type of an object
get_compss_type(obj) ==
    CASE is_psco(PyNone, obj) -> "EXTERNAL_PSCO"
      [] is_tuple(obj) -> "COLLECTION"
      [] OTHER -> "OBJECT"

\* TaskWorker.call, lines 113-138: whether the first argument is the receiver,
\* and its type and value before the user function runs.
self_before(args) ==
    LET has_self == Len(args) > 0 /\ ~isinstance_Parameter(args[1])
        psco == has_self /\ get_compss_type(args[1].content) = "EXTERNAL_PSCO"
    IN  [has_self |-> has_self,
         self_type |-> IF ~has_self THEN PyNone
                       ELSE IF psco THEN "EXTERNAL_PSCO" ELSE "FILE",
         self_value |-> IF ~has_self THEN PyNone
                        ELSE IF psco THEN getID(args[1].content) ELSE "null"]

\* A report that keeps the type the parameter arrived with.
parameter_type_value_as_received(dec, arg) ==
    <<arg.content_type, "null", <<>>>>

\* manage_new_types_values, the entry of one parameter that is no return
\* (lines 980-1003).
parameter_type_value(dec, arg) ==
    CASE arg.content_type \in {"EXTERNAL_PSCO", "FILE"} ->
             IF is_psco(arg.content_type, arg.content)
             THEN <<"EXTERNAL_PSCO", getID(arg.content), <<>>>>
             ELSE <<arg.content_type, "null", <<>>>>
      [] arg.content_type = "COLLECTION" ->
             <<"COLLECTION", "list",
               build_collection_types_values(arg,
                   decorator_argument(dec, arg.name).direction,
                   is_parameter_file_collection(dec, arg.name))>>
      [] OTHER -> <<arg.content_type, "null", <<>>>>

\* A report that inspects the receiver again whatever the direction is.
self_type_value_inspected(dec, receiver, slf) ==
    IF is_psco(PyNone, receiver.content)
    THEN <<"EXTERNAL_PSCO", getID(receiver.content), <<>>>>
    ELSE <<"FILE", "null", <<>>>>

\* manage_new_types_values, the entry of the receiver (lines 1006-1024): slf
\* is what call saved before the user function ran.
self_type_value(dec, receiver, slf) ==
    IF dec.target_direction = "INOUT"
    THEN IF is_psco(PyNone, receiver.content)
         THEN <<"EXTERNAL_PSCO", getID(receiver.content), <<>>>>
         ELSE <<"FILE", "null", <<>>>>
    ELSE <<slf.self_type, slf.self_value, <<>>>>

RECURSIVE return_types_values(_, _, _)

\* manage_new_types_values, the loop over user_returns from return i on.
\* For a return that is a tuple or a list the loop reads elem.type of each
\* of its elements, which the objects of the user do not have, and after it
\* the entry of the collection is followed by a second entry with COLLECTION
\* and ret_value, a local variable that holds the value of the return before
\* it and is not bound when there is none (stale is <<>> then).
return_types_values(user_returns, i, stale) ==
    IF i > Len(user_returns)
    THEN [entries |-> <<>>, err |-> NoError]
    ELSE LET ret == user_returns[i]
             ret_type == get_compss_type(ret)
         IN  IF ret_type = "COLLECTION"
             THEN IF Len(tuple_elements(ret)) > 0
                  THEN [entries |-> <<>>, err |-> "AttributeError"]
                  ELSE IF stale = <<>>
                  THEN [entries |-> <<>>, err |-> "UnboundLocalError"]
                  ELSE LET r == return_types_values(user_returns, i + 1, stale)
                       IN  [r EXCEPT !.entries =
                               <<<<"COLLECTION", "list", <<>>>>,
                                 <<"COLLECTION", stale[1], <<>>>>>> \o @]
             ELSE LET entry == IF ret_type = "EXTERNAL_PSCO"
                               THEN <<"EXTERNAL_PSCO", getID(ret), <<>>>>
                               ELSE <<"FILE", "null", <<>>>>
                      r == return_types_values(user_returns, i + 1,
                                               <<entry[2]>>)
                  IN  [r EXCEPT !.entries = <<entry>> \o @]

\* TaskWorker.manage_new_types_values.  Each entry of the message is
\* <<type, value, elements>>: value is "null", the getID() of a persistent
\* object, or "list" with the entries of a collection in elements.  slf is
\* what call saved of the receiver before the user function ran.
manage_new_types_values(tw, args, user_returns, slf) ==
    LET dec == tw.decorator_arguments
        num_returns == Len(ret_params(args))
        params_start == IF slf.has_self THEN 1 ELSE 0
        params_end == Len(args) - num_returns + 1
        params == SubSeq(args, params_start + 1, params_end - 1)
        of_param(arg) == parameter_type_value(dec, arg)
        of_self == self_type_value(dec, args[1], slf)
        rets == IF num_returns > 0
                THEN return_types_values(user_returns, 1, <<>>)
                ELSE [entries |-> <<>>, err |-> NoError]
    IN  IF \E i \in DOMAIN params : ~isinstance_Parameter(params[i])
        THEN [result |-> <<>>, err |-> "PyCOMPSsException"]
        ELSE IF rets.err # NoError
        THEN [result |-> <<>>, err |-> rets.err]
        ELSE [result |-> [i \in DOMAIN params |-> of_param(params[i])]
                         \o (IF slf.has_self THEN <<of_self>> ELSE <<>>)
                         \o rets.entries,
              err |-> NoError]

\* The TaskWorker before any invocation, with the keyword arguments of call
\* and the rank of the process among the MPI processes of the task.
NoTask ==
    [decorator_arguments |-> [args |-> EmptyDict, numba |-> FALSE,
                              tracing_hook |-> FALSE,
                              target_direction |-> PyNone],
     compss_tracing |-> FALSE, global_tracing_hook |-> FALSE,
     on_failure |-> "RETRY", defaults |-> EmptyDict,
     storage_supports_pipelining |-> FALSE, storage |-> {},
     compss_python_MPI |-> FALSE, rank |-> 0,
     compss_collections_layouts |-> EmptyDict,
     user_function |-> "f"]

\* The local variables of TaskWorker.call before any invocation; exception is
\* what call raised and result what it returned; self is what call saved of
\* the receiver before the user function ran.
NoLocals ==
    [i |-> 0, user_returns |-> PyNone, compss_exception |-> NoException,
     default_values |-> EmptyDict, exception |-> NoException,
     result |-> <<>>, target_direction |-> PyNone,
     self |-> [has_self |-> FALSE, self_type |-> PyNone,
               self_value |-> PyNone]]

-----------------------------------------------------------------------------
(* The calling program.                                                    *)

\* The threads of the calling process that may be inside a tracker method at
\* the same time (OT is one instance shared by the whole process).
Threads == {"thread_a", "thread_b"}

\* The local variables of a thread that is inside no call.
NoFrame ==
    [op |-> "none", obj |-> None, collection |-> FALSE, new_id |-> None,
     loaded |-> 0, obj_id |-> None, file_name |-> None]

\* An object is alive while the program holds a reference to it, the tracker
\* does (obj_id_to_obj keeps a strong reference) or a call in progress has it
\* as its argument.
Alive(obj) ==
    \/ obj \in held
    \/ obj \in Range(obj_id_to_obj)
    \/ \E th \in DOMAIN frame : frame[th].obj = obj

\* The identifiers the tracker has given out so far.
IssuedIds == {issued[k] : k \in DOMAIN issued}

\* What the tracker held just before a call, as far as the call's arguments
\* go: the identifier of obj (None when obj is not tracked or the call has no
\* obj), whether obj_id was written, whether obj_id had a file name, and
\* whether the five tables were all empty.
Before(t, obj, obj_id) ==
    [tracked |-> IF obj = None THEN None ELSE is_tracked(t, obj),
     written |-> obj_id \in t.written_objects,
     file |-> obj_id \in DOMAIN t.file_names,
     empty |-> /\ DOMAIN t.file_names = {}
               /\ t.pending_to_synchronize = {}
               /\ t.written_objects = {}
               /\ DOMAIN t.obj_id_to_obj = {}
               /\ DOMAIN t.address_to_obj_id = {}]

NoCall(op) ==
    [op |-> op, obj |-> None, collection |-> FALSE, obj_id |-> None,
     ret |-> None, err |-> NoError, fresh |-> None, repeat |-> FALSE,
     before |-> Before(init_tracker(runtime_id), None, None)]

Init ==
    /\ \E rid \in RuntimeIds :
         LET t == init_tracker(rid)
         IN  /\ file_names = t.file_names
             /\ pending_to_synchronize = t.pending_to_synchronize
             /\ written_objects = t.written_objects
             /\ current_id = t.current_id
             /\ runtime_id = t.runtime_id
             /\ obj_id_to_obj = t.obj_id_to_obj
             /\ address_to_obj_id = t.address_to_obj_id
             /\ reporting = t.reporting
             /\ reporting_info = t.reporting_info
    /\ held = {}
    /\ last = NoCall("init")
    /\ issued = <<>>
    /\ first_track = EmptyDict
    /\ pc = [th \in Threads |-> "idle"]
    /\ frame = [th \in Threads |-> NoFrame]
    /\ wpc = "idle"
    /\ task = NoTask
    /\ task_args = <<>>
    /\ files = EmptyDict
    /\ trace = <<>>
    /\ wlocal = NoLocals
    /\ profile = TracingHook

\* The effect of one call of a tracker method with result r.  last records
\* the call; issued is the list of the identifiers generated so far.
Call(op, obj, collection, obj_id, r) ==
    /\ r.t.current_id <= MaxId + 1
    /\ Len(r.t.reporting_info) <= MaxReports
    /\ file_names' = r.t.file_names
    /\ pending_to_synchronize' = r.t.pending_to_synchronize
    /\ written_objects' = r.t.written_objects
    /\ current_id' = r.t.current_id
    /\ runtime_id' = r.t.runtime_id
    /\ obj_id_to_obj' = r.t.obj_id_to_obj
    /\ address_to_obj_id' = r.t.address_to_obj_id
    /\ reporting' = r.t.reporting
    /\ reporting_info' = r.t.reporting_info
    /\ last' = [op |-> op, obj |-> obj, collection |-> collection,
                obj_id |-> obj_id, ret |-> r.ret, err |-> r.err,
                fresh |-> r.fresh,
                repeat |-> op = "track" /\ <<obj, collection>> \in DOMAIN first_track,
                before |-> Before(Tracker, obj, obj_id)]
    /\ issued' = IF r.fresh # None THEN Append(issued, r.fresh) ELSE issued
    /\ UNCHANGED <<held, thread_vars, worker_vars>>

\* The program creates a new object: no living object has its address.  (An
\* object whose name is used again is another object: nothing remembers the
\* first one once it is dead.)
NewObject ==
    \E obj \in Objects :
        /\ \A o \in Objects :
              Alive(o) => get_object_address(o) # get_object_address(obj)
        /\ held' = held \cup {obj}
        /\ last' = NoCall("new_object")
        /\ UNCHANGED <<tracker_vars, issued, first_track, thread_vars,
                       worker_vars>>

\* The program drops its last reference to an object.
DropObject ==
    \E obj \in held :
        /\ held' = held \ {obj}
        /\ last' = NoCall("drop_object")
        /\ UNCHANGED <<tracker_vars, issued, first_track, thread_vars,
                       worker_vars>>

\* first_track remembers what the first track(obj, collection) returned since
\* the last stop_tracking, update_mapping or clean_object_tracker call.
Track ==
    \E obj \in held, collection \in BOOLEAN :
        LET r == track(Tracker, obj, collection)
        IN  /\ Call("track", obj, collection, None, r)
            /\ first_track' = IF <<obj, collection>> \in DOMAIN first_track
                              THEN first_track
                              ELSE Put(first_track, <<obj, collection>>, r.ret)

NotTrack ==
    \E collection \in BOOLEAN :
        /\ Call("not_track", None, collection, None,
                not_track(Tracker, collection))
        /\ UNCHANGED first_track

StopTracking ==
    \E obj \in held, collection \in BOOLEAN :
        /\ Call("stop_tracking", obj, collection, None,
                stop_tracking(Tracker, obj, collection))
        /\ first_track' = EmptyDict

SetPendingToSynchronize ==
    \E obj_id \in IssuedIds :
        /\ Call("set_pending_to_synchronize", None, FALSE, obj_id,
                Result(set_pending_to_synchronize(Tracker, obj_id),
                       None, NoError, None))
        /\ UNCHANGED first_track

PopWrittenObj ==
    \E obj_id \in IssuedIds :
        /\ Call("pop_written_obj", None, FALSE, obj_id,
                pop_written_obj(Tracker, obj_id))
        /\ UNCHANGED first_track

UpdateMapping ==
    \E obj_id \in IssuedIds, obj \in held :
        /\ Call("update_mapping", obj, FALSE, obj_id,
                update_mapping(Tracker, obj_id, obj))
        /\ first_track' = EmptyDict

CleanObjectTracker ==
    /\ Call("clean_object_tracker", None, FALSE, None,
            clean_object_tracker(Tracker))
    /\ first_track' = EmptyDict

Next ==
    \/ NewObject
    \/ DropObject
    \/ Track
    \/ NotTrack
    \/ StopTracking
    \/ SetPendingToSynchronize
    \/ PopWrittenObj
    \/ UpdateMapping
    \/ CleanObjectTracker

Spec == Init /\ [][Next]_vars

-----------------------------------------------------------------------------
(* Properties of the tracker.                                              *)

\* The five tables of the tracker.
Tables(t) == <<t.file_names, t.pending_to_synchronize, t.written_objects,
               t.obj_id_to_obj, t.address_to_obj_id>>

\* C1: no ObjectId is issued twice.  The identifiers generated so far are
\* pairwise different (also across stop_tracking and clean_object_tracker),
\* every identifier returned by track or not_track is one of them, and two
\* different living tracked objects never hold the same identifier.
C1_IdsIssuedOnce ==
    /\ \A j, k \in DOMAIN issued : j # k => issued[j] # issued[k]
    /\ last.op \in {"track", "not_track"} => last.ret[1] \in IssuedIds
    /\ DOMAIN obj_id_to_obj \subseteq IssuedIds
    /\ Range(address_to_obj_id) \subseteq IssuedIds
    /\ \A o1, o2 \in Objects :
          (/\ o1 # o2 /\ Alive(o1) /\ Alive(o2)
           /\ is_tracked(Tracker, o1) # None
           /\ is_tracked(Tracker, o2) # None)
          => is_tracked(Tracker, o1) # is_tracked(Tracker, o2)

\* C1 witness: track generated a second identifier for a second object while
\* the first identifier had already left the tracker.
C1_Witness ==
    /\ last.op = "track"
    /\ last.fresh # None
    /\ Len(issued) = 2
    /\ issued[1] \notin DOMAIN obj_id_to_obj
    /\ last.before.empty

\* C2 (as stated): after stop_tracking(o, collection) returns for an object o
\* tracked under identifier i, is_tracked(o) is None and i is in neither
\* file_names nor pending_to_synchronize, whatever the collection flag.
C2_StopTrackingRemovesAll ==
    (last.op = "stop_tracking" /\ last.before.tracked # None /\ last.err = NoError)
    => /\ is_tracked(Tracker, last.obj) = None
       /\ last.before.tracked \notin DOMAIN file_names
       /\ last.before.tracked \notin pending_to_synchronize

\* C3: track(o, c) repeated with the same flag, with no stop_tracking,
\* update_mapping or clean_object_tracker since the first call, returns what
\* the first call returned, generates no identifier and changes neither
\* current_id nor any of the five tables.
C3_TrackIdempotent ==
    [][(last'.op = "track" /\ last'.repeat)
       => /\ last'.ret = first_track[<<last'.obj, last'.collection>>]
          /\ last'.err = NoError
          /\ last'.fresh = None
          /\ current_id' = current_id
          /\ Tables(Tracker') = Tables(Tracker)]_vars

\* C3 witness: a second track(o, FALSE) has returned.
C3_Witness ==
    /\ last.op = "track"
    /\ last.repeat
    /\ ~last.collection
    /\ last.ret[1] \in pending_to_synchronize

\* C4: address_to_obj_id and obj_id_to_obj are mutually inverse, no two live
\* identifiers refer to the same object, and the identifier found for a
\* living object through its address is the identifier of that very object.
C4_MapsInverse ==
    /\ \A i \in DOMAIN obj_id_to_obj :
          /\ get_object_address(obj_id_to_obj[i]) \in DOMAIN address_to_obj_id
          /\ address_to_obj_id[get_object_address(obj_id_to_obj[i])] = i
    /\ \A a \in DOMAIN address_to_obj_id :
          /\ address_to_obj_id[a] \in DOMAIN obj_id_to_obj
          /\ get_object_address(obj_id_to_obj[address_to_obj_id[a]]) = a
    /\ \A i, j \in DOMAIN obj_id_to_obj :
          i # j => obj_id_to_obj[i] # obj_id_to_obj[j]
    /\ \A o \in held :
          is_tracked(Tracker, o) # None
          => obj_id_to_obj[is_tracked(Tracker, o)] = o

\* C4 witness: update_mapping has replaced the identifier of a tracked object.
C4_Witness ==
    /\ last.op = "update_mapping"
    /\ last.before.tracked # None
    /\ last.err = NoError
    /\ is_tracked(Tracker, last.obj) = last.fresh
    /\ last.before.tracked \notin DOMAIN obj_id_to_obj

\* C5: current_id never decreases, whatever the operation; an identifier
\* generated has a counter greater than that of every identifier generated
\* before it; runtime_id never changes.
C5_CounterMonotonic ==
    [][/\ current_id' >= current_id
       /\ runtime_id' = runtime_id
       /\ last'.fresh # None
          => /\ last'.fresh = format_obj_id(runtime_id, current_id)
             /\ current_id' > current_id
             /\ \A k \in DOMAIN issued : issued[k][2] < last'.fresh[2]]_vars

\* C5 witness: clean_object_tracker was called after identifiers were issued
\* and the counter stands beyond them.
C5_Witness ==
    /\ last.op = "clean_object_tracker"
    /\ ~last.before.empty
    /\ Len(issued) > 0
    /\ current_id = Len(issued) + 1

\* C6: track(o, FALSE) on an untracked object returns (id, path) with path
\* the temporary directory followed by id, file_names[id] = path and id
\* pending; track(o, TRUE) on an untracked object returns (id, None) and id
\* has neither a file name nor a pending entry.  Every file name in
\* file_names is the one derived from its identifier, so no identifier ever
\* has two paths.
C6_TrackFileName ==
    /\ (last.op = "track" /\ last.before.tracked = None /\ ~last.collection)
       => /\ last.ret[2] = <<get_temporary_directory, last.ret[1]>>
          /\ last.ret[1] \in DOMAIN file_names
          /\ file_names[last.ret[1]] = last.ret[2]
          /\ last.ret[1] \in pending_to_synchronize
    /\ (last.op = "track" /\ last.before.tracked = None /\ last.collection)
       => /\ last.ret[2] = None
          /\ last.ret[1] \notin DOMAIN file_names
          /\ last.ret[1] \notin pending_to_synchronize
    /\ \A i \in DOMAIN file_names :
          file_names[i] = <<get_temporary_directory, i>>

\* C6 witness: track(o, TRUE) has registered an untracked object.
C6_Witness ==
    /\ last.op = "track"
    /\ last.before.tracked = None
    /\ last.collection
    /\ last.ret[1] \in DOMAIN obj_id_to_obj
    /\ DOMAIN file_names # {}

\* C7: update_mapping(old, o) with old in file_names registers o under an
\* identifier never generated before, gives it old's path with old replaced
\* by the new identifier, marks it written, and leaves old's file name,
\* pending membership and written membership as they were.
C7_UpdateMapping ==
    [][(last'.op = "update_mapping" /\ last'.obj_id \in DOMAIN file_names)
       => LET old == last'.obj_id
              new == last'.fresh
          IN  /\ last'.err = NoError
              /\ new # None
              /\ new \notin IssuedIds
              /\ new \in DOMAIN obj_id_to_obj'
              /\ obj_id_to_obj'[new] = last'.obj
              /\ is_tracked(Tracker', last'.obj) = new
              /\ new \in DOMAIN file_names'
              /\ Len(file_names'[new]) = Len(file_names[old])
              /\ \A k \in DOMAIN file_names[old] :
                    file_names'[new][k] =
                        IF file_names[old][k] = old THEN new
                        ELSE file_names[old][k]
              /\ file_names'[new] # file_names[old]
              /\ new \in written_objects'
              /\ old \in DOMAIN file_names'
              /\ file_names'[old] = file_names[old]
              /\ (old \in pending_to_synchronize')
                     = (old \in pending_to_synchronize)
              /\ (old \in written_objects') = (old \in written_objects)]_vars

\* C7 witness: update_mapping has returned for an identifier with a file
\* name that is still pending.
C7_Witness ==
    /\ last.op = "update_mapping"
    /\ last.before.file
    /\ last.err = NoError
    /\ last.obj_id \in pending_to_synchronize
    /\ last.fresh \in written_objects

\* C8: pop_written_obj(id) with id not in written_objects raises and changes
\* no field of the tracker.
C8_PopUnwrittenFails ==
    [][(last'.op = "pop_written_obj" /\ last'.obj_id \notin written_objects)
       => /\ last'.err = "KeyError"
          /\ Tables(Tracker') = Tables(Tracker)
          /\ current_id' = current_id]_vars

\* C8 witness: pop_written_obj has raised for an identifier that has a file
\* name but was not written.
C8_Witness ==
    /\ last.op = "pop_written_obj"
    /\ ~last.before.written
    /\ last.before.file
    /\ last.err = "KeyError"

\* C9: stop_tracking(o, c) on an object that is not tracked returns without
\* error and changes neither the five tables nor current_id.
C9_StopUntrackedNoOp ==
    [][(last'.op = "stop_tracking" /\ is_tracked(Tracker, last'.obj) = None)
       => /\ last'.err = NoError
          /\ Tables(Tracker') = Tables(Tracker)
          /\ current_id' = current_id]_vars

\* C9 witness: stop_tracking has been called on an untracked object while
\* another object is tracked.
C9_Witness ==
    /\ last.op = "stop_tracking"
    /\ last.before.tracked = None
    /\ ~last.before.empty
    /\ DOMAIN obj_id_to_obj # {}

\* C10: clean_object_tracker can be called in every reachable state; it
\* returns without error and leaves the five tables empty, so that no object
\* is tracked and no identifier is pending or written.
C10_CleanEmptiesAll ==
    /\ ENABLED CleanObjectTracker
    /\ last.op = "clean_object_tracker"
       => /\ last.err = NoError
          /\ DOMAIN file_names = {}
          /\ pending_to_synchronize = {}
          /\ written_objects = {}
          /\ DOMAIN obj_id_to_obj = {}
          /\ DOMAIN address_to_obj_id = {}
          /\ \A o \in Objects : is_tracked(Tracker, o) = None
          /\ \A i \in IssuedIds :
                i \notin pending_to_synchronize /\ i \notin written_objects

\* C10 witness: clean_object_tracker has been called on a tracker whose
\* tables were not empty.
C10_Witness ==
    /\ last.op = "clean_object_tracker"
    /\ ~last.before.empty
    /\ held # {}

-----------------------------------------------------------------------------
(* The tracker with its reporting mode: the calling program may enable the *)
(* report at any time and clear the data collected so far.                 *)

EnableReport ==
    /\ Call("enable_report", None, FALSE, None,
            Result(enable_report(Tracker), None, NoError, None))
    /\ UNCHANGED first_track

CleanReport ==
    /\ Call("clean_report", None, FALSE, None,
            Result(clean_report(Tracker), None, NoError, None))
    /\ UNCHANGED first_track

NextReport ==
    \/ Next
    \/ EnableReport
    \/ CleanReport

SpecReport == Init /\ [][NextReport]_vars

\* The operations C12 lists as the mutating ones.
MutatingOps == {"track", "stop_tracking", "update_mapping",
                "set_pending_to_synchronize", "pop_written_obj",
                "clean_object_tracker"}

\* C12: a call of a mutating operation made while reporting is enabled
\* appends exactly one snapshot to reporting_info, and a call of any
\* operation made while reporting is disabled leaves reporting_info as it is.
C12_OneSnapshotPerCall ==
    [][/\ (reporting /\ last'.op \in MutatingOps)
          => /\ Len(reporting_info') = Len(reporting_info) + 1
             /\ SubSeq(reporting_info', 1, Len(reporting_info)) = reporting_info
       /\ (~reporting /\ ~reporting')
          => reporting_info' = reporting_info]_vars

-----------------------------------------------------------------------------
(* Two threads inside track and not_track at the same time.                *)
(*                                                                         *)
(* The tracker has no lock: a thread may be preempted between any two      *)
(* statements of a method, and inside current_id += 1 between the read of  *)
(* the counter and the write of the sum.  Each action below is one such    *)
(* step of one thread; pc[th] is the statement the thread is to run next   *)
(* and frame[th] holds its local variables.                                *)

\* The objects that are the argument of a call in progress of another thread.
InUse(th) == {frame[o].obj : o \in Threads \ {th}}

\* A thread enters track(obj, collection) with an object of its own.
ThreadTrack(th) ==
    /\ pc[th] \in {"idle", "done"}
    /\ \E obj \in held \ InUse(th), collection \in BOOLEAN :
          frame' = [frame EXCEPT ![th] =
                       [NoFrame EXCEPT !.op = "track", !.obj = obj,
                                       !.collection = collection]]
    /\ pc' = [pc EXCEPT ![th] = "is_tracked"]
    /\ UNCHANGED <<tracker_vars, held, last, issued, first_track, worker_vars>>

\* A thread enters not_track(collection).
ThreadNotTrack(th) ==
    /\ pc[th] \in {"idle", "done"}
    /\ \E collection \in BOOLEAN :
          frame' = [frame EXCEPT ![th] =
                       [NoFrame EXCEPT !.op = "not_track",
                                       !.collection = collection]]
    /\ pc' = [pc EXCEPT ![th] = "new_id"]
    /\ UNCHANGED <<tracker_vars, held, last, issued, first_track, worker_vars>>

\* _register_object: identifier = self.is_tracked(obj); a tracked object
\* returns its identifier, an untracked one goes on to get a new one.
ThreadIsTracked(th) ==
    /\ pc[th] = "is_tracked"
    /\ LET identifier == is_tracked(Tracker, frame[th].obj)
       IN  IF identifier # None
           THEN /\ frame' = [frame EXCEPT ![th].obj_id = identifier]
                /\ pc' = [pc EXCEPT ![th] = "files"]
           ELSE /\ pc' = [pc EXCEPT ![th] = "new_id"]
                /\ UNCHANGED frame
    /\ UNCHANGED <<tracker_vars, held, last, issued, first_track, worker_vars>>

\* new_id = "%s-%d" % (self.runtime_id, self.current_id)
ThreadNewId(th) ==
    /\ pc[th] = "new_id"
    /\ LET new_id == format_obj_id(runtime_id, current_id)
       IN  frame' = [frame EXCEPT ![th].new_id = new_id,
                                  ![th].obj_id = new_id]
    /\ pc' = [pc EXCEPT ![th] = "load"]
    /\ UNCHANGED <<tracker_vars, held, last, issued, first_track, worker_vars>>

\* self.current_id += 1, first half: the counter is read.
ThreadLoadCounter(th) ==
    /\ pc[th] = "load"
    /\ frame' = [frame EXCEPT ![th].loaded = current_id]
    /\ pc' = [pc EXCEPT ![th] = "store"]
    /\ UNCHANGED <<tracker_vars, held, last, issued, first_track, worker_vars>>

\* self.current_id += 1, second half: the sum is written.  not_track then
\* builds its file name and returns; _register_object goes on.
ThreadStoreCounter(th) ==
    /\ pc[th] = "store"
    /\ frame[th].loaded + 1 <= MaxId + 1
    /\ current_id' = frame[th].loaded + 1
    /\ IF frame[th].op = "not_track"
       THEN /\ frame' = [frame EXCEPT ![th].file_name =
                            IF frame[th].collection
                            THEN None
                            ELSE format_file_name(frame[th].obj_id)]
            /\ pc' = [pc EXCEPT ![th] = "done"]
       ELSE /\ pc' = [pc EXCEPT ![th] = "insert"]
            /\ UNCHANGED frame
    /\ UNCHANGED <<file_names, pending_to_synchronize, written_objects,
                   runtime_id, obj_id_to_obj, address_to_obj_id, reporting,
                   reporting_info, held, last, issued, first_track,
                   worker_vars>>

\* self.obj_id_to_obj[new_id] = obj; self.address_to_obj_id[address] = new_id
ThreadInsert(th) ==
    /\ pc[th] = "insert"
    /\ obj_id_to_obj' = Put(obj_id_to_obj, frame[th].new_id, frame[th].obj)
    /\ address_to_obj_id' = Put(address_to_obj_id,
                                get_object_address(frame[th].obj),
                                frame[th].new_id)
    /\ pc' = [pc EXCEPT ![th] = "files"]
    /\ UNCHANGED <<file_names, pending_to_synchronize, written_objects,
                   current_id, runtime_id, reporting, reporting_info, held,
                   last, issued, first_track, frame, worker_vars>>

\* The rest of track, after _register_object has returned obj_id: the file
\* name of an object that is no collection, the address table, the report.
ThreadFiles(th) ==
    /\ pc[th] = "files"
    /\ LET obj_id == frame[th].obj_id
           file_name == IF frame[th].collection
                        THEN None
                        ELSE format_file_name(obj_id)
           t1 == IF frame[th].collection
                 THEN Tracker
                 ELSE set_pending_to_synchronize(
                          set_file_name(Tracker, obj_id, file_name, FALSE),
                          obj_id)
           t2 == [t1 EXCEPT !.address_to_obj_id =
                      Put(t1.address_to_obj_id,
                          get_object_address(frame[th].obj), obj_id)]
           t3 == report_now(t2)
       IN  /\ file_names' = t3.file_names
           /\ pending_to_synchronize' = t3.pending_to_synchronize
           /\ address_to_obj_id' = t3.address_to_obj_id
           /\ reporting_info' = t3.reporting_info
           /\ frame' = [frame EXCEPT ![th].file_name = file_name]
    /\ pc' = [pc EXCEPT ![th] = "done"]
    /\ UNCHANGED <<written_objects, current_id, runtime_id, obj_id_to_obj,
                   reporting, held, last, issued, first_track, worker_vars>>

NextThreads ==
    \/ NewObject
    \/ \E th \in Threads :
          \/ ThreadTrack(th)
          \/ ThreadNotTrack(th)
          \/ ThreadIsTracked(th)
          \/ ThreadNewId(th)
          \/ ThreadLoadCounter(th)
          \/ ThreadStoreCounter(th)
          \/ ThreadInsert(th)
          \/ ThreadFiles(th)

SpecThreads == Init /\ [][NextThreads]_vars

\* C11: two threads that are inside (or have just left) track or not_track
\* calls which each generated an identifier never hold the same identifier:
\* allocation behaves as if one tracker-wide lock serialized it.
C11_ConcurrentIdsDiffer ==
    \A a, b \in Threads :
        (/\ a # b
         /\ frame[a].new_id # None
         /\ frame[b].new_id # None)
        => frame[a].new_id # frame[b].new_id

-----------------------------------------------------------------------------
(* One invocation of TaskWorker.call.                                      *)
(*                                                                         *)
(* The engine hands the worker a task with three parameters: a, which may  *)
(* be of any kind and direction, b, an object, and the return.  Each       *)
(* action below is one method call of TaskWorker.call, in the order of its *)
(* code; wpc is the call that comes next.  trace lists what the invocation *)
(* has done so far.                                                        *)

Directions == {"IN", "OUT", "INOUT", "COMMUTATIVE"}

Kinds == {"object", "file", "psco", "collection", "nested_collection",
          "dict_collection", "file_collection"}

\* A line of a collection file that names an object serialized in file_name.
ObjectLine(name, file_name) == Parameter(name, "FILE", file_name, PyNone, <<>>)

\* Such a line for an object of the Python type con_type.
TypedLine(name, file_name, con_type) ==
    TypedParameter(name, "FILE", file_name, PyNone, <<>>, con_type)

\* The parameter a as the engine sends it, for every kind.
ArgA(kind) ==
    CASE kind = "object" -> Parameter("a", "FILE", "a.f", PyNone, <<>>)
      [] kind = "file" -> Parameter("a", "FILE", "a.f", PyNone, <<>>)
      [] kind = "psco" -> Parameter("a", "EXTERNAL_PSCO", NoFile, "id_a", <<>>)
      [] kind = "collection" ->
             Parameter("a", "COLLECTION", "a.col", PyNone,
                 <<TypedLine("@a.0", "a.0.f", "int"),
                   Parameter("@a.1", "EXTERNAL_PSCO", NoFile, "id_a1", <<>>)>>)
      [] kind = "nested_collection" ->
             Parameter("a", "COLLECTION", "a.col", PyNone,
                 <<Parameter("@a.0", "COLLECTION", "a.0.col", PyNone,
                       <<TypedLine("@a.0.0", "a.0.0.f", "int")>>),
                   Parameter("@a.1", "COLLECTION", "a.1.col", PyNone,
                       <<TypedLine("@a.1.0", "a.1.0.f", "str")>>)>>)
      [] kind = "dict_collection" ->
             Parameter("a", "DICT_COLLECTION", "a.dict", PyNone,
                 <<<<ObjectLine("@keya.0", "a.k0.f"),
                     ObjectLine("@valuea.0", "a.v0.f")>>>>)
      [] kind = "file_collection" ->
             Parameter("a", "COLLECTION", "a.col", PyNone,
                 <<ObjectLine("@a.0", "a.0.f"), ObjectLine("@a.1", "a.1.f")>>)
      [] kind = "dict_of_collections" ->
             Parameter("a", "DICT_COLLECTION", "a.dict", PyNone,
                 <<<<ObjectLine("@keya.0", "a.k0.f"),
                     Parameter("@valuea.0", "COLLECTION", "a.v0.col", PyNone,
                         <<ObjectLine("@valuea.0.0", "a.v0.0.f"),
                           ObjectLine("@valuea.0.1", "a.v0.1.f")>>)>>,
                   <<ObjectLine("@keya.1", "a.k1.f"),
                     Parameter("@valuea.1", "COLLECTION", "a.v1.col", PyNone,
                         <<ObjectLine("@valuea.1.0", "a.v1.0.f"),
                           ObjectLine("@valuea.1.1", "a.v1.1.f")>>)>>>>)
      [] kind = "collection_of_dicts" ->
             Parameter("a", "COLLECTION", "a.col", PyNone,
                 <<Parameter("@a.0", "DICT_COLLECTION", "a.0.dict", PyNone,
                       <<<<ObjectLine("@key@a.0.0", "a.0.k0.f"),
                           ObjectLine("@value@a.0.0", "a.0.v0.f")>>>>),
                   ObjectLine("@a.1", "a.1.f")>>)

\* What the @task decorator says about a parameter of that kind.
Annotation(kind, direction) ==
    [direction |-> direction,
     content_type |-> CASE kind = "file" -> "FILE"
                        [] kind \in {"collection", "nested_collection",
                                     "file_collection",
                                     "collection_of_dicts"} -> "COLLECTION"
                        [] kind \in {"dict_collection",
                                     "dict_of_collections"} ->
                               "DICT_COLLECTION"
                        [] OTHER -> PyNone,
     is_file_collection |-> kind = "file_collection",
     depth |-> IF kind \in {"nested_collection", "dict_of_collections",
                            "collection_of_dicts"}
               THEN 2 ELSE 1]

\* The files the engine has written when the task starts: the serialized
\* objects and the files of the parameters that are no outputs.
FilesOfA(kind, direction) ==
    CASE kind = "object" -> [f \in {"a.f"} |-> <<"pickle", "old">>]
      [] kind = "file" /\ direction # "OUT" ->
             [f \in {"a.f"} |-> <<"bytes", "old">>]
      [] kind = "collection" /\ direction # "OUT" ->
             [f \in {"a.0.f"} |-> <<"pickle", "old">>]
      [] kind = "nested_collection" /\ direction # "OUT" ->
             [f \in {"a.0.0.f", "a.1.0.f"} |-> <<"pickle", "old">>]
      [] kind = "dict_collection" /\ direction # "OUT" ->
             [f \in {"a.k0.f", "a.v0.f"} |->
                 IF f = "a.k0.f" THEN <<"pickle", "key">> ELSE <<"pickle", "old">>]
      [] kind = "file_collection" /\ direction # "OUT" ->
             [f \in {"a.0.f", "a.1.f"} |-> <<"bytes", "old">>]
      [] kind = "dict_of_collections" /\ direction # "OUT" ->
             [f \in {"a.k0.f", "a.k1.f", "a.v0.0.f", "a.v0.1.f", "a.v1.0.f",
                     "a.v1.1.f"} |->
                 CASE f = "a.k0.f" -> <<"pickle", "key">>
                   [] f = "a.k1.f" -> <<"pickle", "key1">>
                   [] OTHER -> <<"pickle", "old">>]
      [] kind = "collection_of_dicts" /\ direction # "OUT" ->
             [f \in {"a.0.k0.f", "a.0.v0.f", "a.1.f"} |->
                 IF f = "a.0.k0.f" THEN <<"pickle", "key">>
                 ELSE <<"pickle", "old">>]
      [] OTHER -> EmptyDict

\* The default of a parameter of that kind, as the defaults of the task
\* give it: a value for an object, the name of a file for a file.
DefaultOfA(kind) ==
    CASE kind = "file" -> "a.default"
      [] kind \in {"collection", "file_collection"} -> <<"default", "default">>
      [] kind = "nested_collection" -> <<<<"default">>, <<"default">>>>
      [] kind = "dict_collection" -> <<<<"key", "default">>>>
      [] OTHER -> "default"

\* f with the entries of g added or replaced.
Merge(f, g) ==
    [x \in DOMAIN f \cup DOMAIN g |-> IF x \in DOMAIN g THEN g[x] ELSE f[x]]

\* The defaults a task may be given: none, the return only, the return and
\* a, or the return and both parameters.
DefaultsChoices(kind) ==
    LET r == [x \in {"returns"} |-> "default_return"]
        a == [x \in {"a"} |-> DefaultOfA(kind)]
        b == [x \in {"b"} |-> "default"]
    IN  {EmptyDict, r, Merge(r, a), Merge(Merge(r, a), b)}

\* What may be missing when the task starts: nothing, the file of a, the
\* file of b or a persistent object.
Faults == {NoFile, "a.f", "b.f", "id_a"}

\* The engine calls TaskWorker.call: on_failure and defaults are taken from
\* the keyword arguments (lines 88-90).
Receive ==
    /\ wpc = "idle"
    /\ \E kind \in Kinds, direction \in Directions, b_declared \in BOOLEAN,
          on_failure \in {"RETRY", "IGNORE"}, numba \in BOOLEAN,
          pipelining \in BOOLEAN, fault \in Faults :
          \E defaults \in DefaultsChoices(kind) :
             LET dec == [args |-> IF b_declared
                                  THEN [x \in {"a", "b"} |->
                                           IF x = "a"
                                           THEN Annotation(kind, direction)
                                           ELSE Annotation("object", "INOUT")]
                                  ELSE [x \in {"a"} |->
                                           Annotation(kind, direction)],
                         numba |-> numba, tracing_hook |-> FALSE,
                         target_direction |-> "INOUT"]
                 fs == Merge(Merge(FilesOfA(kind, direction),
                                   [f \in {"b.f"} |-> <<"pickle", "old">>]),
                             [f \in {"a.default"} |-> <<"bytes", "default">>])
             IN  /\ task' = [decorator_arguments |-> dec,
                             compss_tracing |-> FALSE,
                             global_tracing_hook |-> FALSE,
                             on_failure |-> on_failure,
                             defaults |-> defaults,
                             storage_supports_pipelining |-> pipelining,
                             storage |-> {"id_a", "id_a1"} \ {fault},
                             compss_python_MPI |-> FALSE, rank |-> 0,
                             compss_collections_layouts |-> EmptyDict,
                             user_function |-> "f"]
                 /\ task_args' = <<ArgA(kind),
                                   Parameter("b", "FILE", "b.f", PyNone, <<>>),
                                   Parameter("$return_0", "FILE", "ret.f",
                                             PyNone, <<>>)>>
                 /\ files' = Pop(fs, fault)
    /\ wpc' = "reveal_objects"
    /\ trace' = <<>>
    /\ wlocal' = NoLocals
    /\ UNCHANGED <<tracker_vars, held, last, issued, first_track, thread_vars,
                   profile>>

\* One entry of trace: a step of the invocation and what it was about.
Event(step, what) == [step |-> step, what |-> what]

\* The serialize_to_file calls of one method, as entries of trace.
Serialized(written) ==
    [k \in DOMAIN written |-> Event("serialize_to_file", written[k])]

\* A call that catches the exception and takes the failed step again.
RaiseAndRetry(exception) ==
    /\ wpc' = wpc
    /\ wlocal' = [wlocal EXCEPT !.exception = exception]

\* An exception leaves TaskWorker.call.
Raise(exception) ==
    /\ wpc' = "FAILED"
    /\ wlocal' = [wlocal EXCEPT !.exception = exception]

Error(err) == [type |-> err, target_direction |-> PyNone]

\* A loop of reveal_objects that stops after its first parameter.
NextToRevealFirstOnly(i) == IF i = 0 THEN 1 ELSE 0

\* The first parameter after position i that is no return: the next one the
\* loop of reveal_objects takes (0 when there is none).
NextToReveal(i) ==
    LET rest == {j \in DOMAIN task_args :
                    /\ j > i
                    /\ isinstance_Parameter(task_args[j])
                    /\ ~is_return(task_args[j].name)}
    IN  IF rest = {} THEN 0
        ELSE CHOOSE j \in rest : \A k \in rest : j <= k

\* reveal_objects, up to its loop: the batched resolution.
RevealObjects ==
    /\ wpc = "reveal_objects"
    /\ LET r == reveal_pipelined(task, task_args)
       IN  /\ trace' = Append(trace, Event("reveal_objects", ""))
           /\ IF r.err # NoError
              THEN Raise(Error(r.err))
              ELSE /\ wpc' = "retrieve_content"
                   /\ wlocal' = [wlocal EXCEPT !.i = NextToReveal(0)]
    /\ UNCHANGED <<task, task_args, files>>
    /\ UNCHANGED <<tracker_vars, held, last, issued, first_track, thread_vars,
                   profile>>

\* reveal_objects, one turn of its loop: retrieve_content of one parameter.
RetrieveContent ==
    /\ wpc = "retrieve_content"
    /\ LET i == wlocal.i
           r == retrieve_content(task, files, task_args[i], 0)
       IN  /\ trace' = Append(trace, Event("retrieve_content", task_args[i].name))
           /\ task_args' = [task_args EXCEPT ![i] = r.arg]
           /\ IF r.err # NoError
              THEN Raise(Error(r.err))
              ELSE /\ wpc' = IF NextToReveal(i) = 0
                             THEN "execute_user_code"
                             ELSE "retrieve_content"
                   /\ wlocal' = [wlocal EXCEPT !.i = NextToReveal(i)]
    /\ UNCHANGED <<task, files>>
    /\ UNCHANGED <<tracker_vars, held, last, issued, first_track, thread_vars,
                   profile>>

\* What the body of the user function may do.
Bodies ==
    [outcome : {"return", "COMPSsException", "Exception"},
     effect : {"none", "mutate", "persist"},
     returns : {"value"}]

\* What the body of a function with several results may do: return a single
\* value, a persistent object, None or a tuple, or raise.
ReturnsBodies ==
    [outcome : {"return"}, effect : {"none"},
     returns : {"value", "psco", PyNone, "pair", "psco_pair", "single"}]
    \cup [outcome : {"COMPSsException", "Exception"}, effect : {"none"},
          returns : {PyNone}]

\* What the body of a function that updates a collection may do.
CollectionBodies ==
    [outcome : {"return"}, effect : {"none", "mutate", "mutate_one"},
     returns : {"value"}]

\* The bodies of the user function of the task.
BodiesOf(user_function) ==
    CASE user_function = "returns" -> ReturnsBodies
      [] user_function = "collections" -> CollectionBodies
      [] OTHER -> Bodies

\* execute_user_code, and the test of default_values that follows it.
ExecuteUserCode ==
    /\ wpc = "execute_user_code"
    /\ \E body \in BodiesOf(task.user_function) :
          LET r == execute_user_code(task, task_args, files, body)
          IN  /\ trace' = Append(trace, Event("user_function", body.outcome))
              /\ task_args' = r.args
              /\ files' = r.files
              /\ task' = [task EXCEPT !.defaults = r.defaults]
              /\ profile' = profile_after(task, profile, r.err)
              /\ IF r.err # NoError
                 THEN Raise(Error(r.err))
                 ELSE /\ wlocal' = [wlocal EXCEPT
                                       !.self = self_before(task_args),
                                       !.user_returns = r.user_returns,
                                       !.compss_exception = r.compss_exception,
                                       !.default_values = r.default_values]
                      /\ wpc' = IF DOMAIN r.default_values # {}
                                THEN "manage_defaults"
                                ELSE "manage_inouts"
    /\ UNCHANGED <<tracker_vars, held, last, issued, first_track, thread_vars>>

ManageDefaults ==
    /\ wpc = "manage_defaults"
    /\ LET r == manage_defaults(task, task_args, files, wlocal.default_values)
       IN  /\ trace' = Append(trace, Event("manage_defaults", ""))
           /\ task_args' = r.args
           /\ files' = r.files
           /\ IF r.err # NoError
              THEN Raise(Error(r.err))
              ELSE /\ wpc' = "manage_inouts"
                   /\ UNCHANGED wlocal
    /\ UNCHANGED task
    /\ UNCHANGED <<tracker_vars, held, last, issued, first_track, thread_vars,
                   profile>>

\* manage_inouts, and the test of compss_exception that follows it.
ManageInouts ==
    /\ wpc = "manage_inouts"
    /\ LET r == manage_inouts(task, task_args, files)
       IN  /\ trace' = Append(trace, Event("manage_inouts", ""))
                       \o Serialized(r.written)
           /\ files' = r.files
           /\ IF r.err # NoError
              THEN Raise(Error(r.err))
              ELSE /\ wpc' = IF wlocal.compss_exception # NoException
                             THEN "raise"
                             ELSE "manage_returns"
                   /\ UNCHANGED wlocal
    /\ UNCHANGED <<task, task_args>>
    /\ UNCHANGED <<tracker_vars, held, last, issued, first_track, thread_vars,
                   profile>>

\* raise compss_exception
RaiseCompssException ==
    /\ wpc = "raise"
    /\ trace' = Append(trace, Event("raise", wlocal.compss_exception.type))
    /\ Raise(wlocal.compss_exception)
    /\ UNCHANGED <<task, task_args, files>>
    /\ UNCHANGED <<tracker_vars, held, last, issued, first_track, thread_vars,
                   profile>>

ManageReturns ==
    /\ wpc = "manage_returns"
    /\ LET r == manage_returns(task, task_args, files, wlocal.user_returns)
       IN  /\ trace' = Append(trace, Event("manage_returns", ""))
                       \o Serialized(r.written)
           /\ files' = r.files
           /\ IF r.err # NoError
              THEN Raise(Error(r.err))
              ELSE /\ wpc' = "manage_new_types_values"
                   /\ wlocal' = [wlocal EXCEPT
                                    !.user_returns = r.user_returns]
    /\ UNCHANGED <<task, task_args>>
    /\ UNCHANGED <<tracker_vars, held, last, issued, first_track, thread_vars,
                   profile>>

\* manage_new_types_values, and the return of call.
ManageNewTypesValues ==
    /\ wpc = "manage_new_types_values"
    /\ trace' = Append(trace, Event("manage_new_types_values", ""))
    /\ LET r == manage_new_types_values(task, task_args, wlocal.user_returns,
                                        wlocal.self)
       IN  IF r.err # NoError
           THEN Raise(Error(r.err))
           ELSE /\ wlocal' = [wlocal EXCEPT
                                 !.result = r.result,
                                 !.target_direction =
                                     task.decorator_arguments.target_direction]
                /\ wpc' = "DONE"
    /\ UNCHANGED <<task, task_args, files>>
    /\ UNCHANGED <<tracker_vars, held, last, issued, first_track, thread_vars,
                   profile>>

NextWorker ==
    \/ Receive
    \/ RevealObjects
    \/ RetrieveContent
    \/ ExecuteUserCode
    \/ ManageDefaults
    \/ ManageInouts
    \/ RaiseCompssException
    \/ ManageReturns
    \/ ManageNewTypesValues

SpecWorker == Init /\ [][NextWorker]_vars

-----------------------------------------------------------------------------
(* Invocations of other tasks: functions with no, one or two results, also *)
(* as MPI tasks; methods; collections with layouts.                        *)

\* The keyword arguments of call for a task of the model.
TaskOf(dec, on_failure, defaults, pipelining, python_mpi, rank, layouts, user_function) ==
    [decorator_arguments |-> dec, on_failure |-> on_failure,
     compss_tracing |-> FALSE, global_tracing_hook |-> FALSE,
     defaults |-> defaults, storage_supports_pipelining |-> pipelining,
     storage |-> {"id_a", "id_a1", "id_self"},
     compss_python_MPI |-> python_mpi, rank |-> rank,
     compss_collections_layouts |-> layouts,
     user_function |-> user_function]

\* The return parameters the engine sends for num_returns results.
ReturnArgs(num_returns) ==
    [i \in 1..num_returns |->
        Parameter(ReturnName(i - 1), "FILE", ReturnFile(i - 1), PyNone, <<>>)]

\* Tasks with one IN object a and zero to MaxReturns results, run as an
\* ordinary task or as the process rank of an MPI task that has as many
\* processes as results.
ReturnsInvocations ==
    LET dec == [args |-> [x \in {"a"} |-> Annotation("object", "IN")],
                numba |-> FALSE, tracing_hook |-> FALSE, target_direction |-> "INOUT"]
        defaults == {EmptyDict, [x \in {"returns"} |-> "default_return"],
                     [x \in {"returns", "a"} |->
                         IF x = "a" THEN "default" ELSE "pair"]}
    IN  {[task |-> TaskOf(dec, c.on_failure, c.defaults, FALSE, c.mpi, c.rank,
                          EmptyDict, "returns"),
          args |-> <<Parameter("a", "FILE", "a.f", PyNone, <<>>)>>
                   \o ReturnArgs(c.num_returns),
          files |-> [f \in {"a.f"} |-> <<"pickle", "old">>]] :
            c \in {x \in [on_failure : {"RETRY", "IGNORE"},
                          defaults : defaults, mpi : BOOLEAN,
                          rank : 0..(MaxReturns - 1),
                          num_returns : 0..MaxReturns] :
                      /\ x.mpi \/ x.rank = 0
                      /\ x.rank = 0 \/ x.rank < x.num_returns}}

\* The receiver of a method as the worker gets it: the object itself, which
\* is a persistent object or not.
SelfArg(obj) == Parameter("self", PyNone, NoFile, obj, <<>>)

\* Methods with the receiver, one parameter a declared INOUT and one result:
\* the receiver and a are persistent objects or serialized objects, and the
\* decorator gives the target direction.
SelfInvocations ==
    {[task |-> TaskOf([args |-> [x \in {"a"} |->
                                    Annotation(c.kind, "INOUT")],
                       numba |-> FALSE, tracing_hook |-> FALSE,
                       target_direction |-> c.target_direction],
                      "RETRY", EmptyDict, c.pipelining, FALSE, 0, EmptyDict,
                      "f"),
      args |-> <<SelfArg(c.self), ArgA(c.kind)>> \o ReturnArgs(1),
      files |-> FilesOfA(c.kind, "INOUT")] :
        c \in [kind : {"object", "file", "psco"},
               self : {"object", "psco_self"},
               target_direction : {"IN", "INOUT"},
               pipelining : BOOLEAN]}

\* The files in which the engine lists the elements of a collection, at
\* every depth.
RECURSIVE ManifestFiles(_)
ManifestFiles(arg) ==
    CASE arg.content_type = "COLLECTION" ->
             {arg.file_name}
             \cup UNION {ManifestFiles(arg.manifest[j]) :
                            j \in DOMAIN arg.manifest}
      [] arg.content_type = "DICT_COLLECTION" ->
             {arg.file_name}
             \cup UNION {ManifestFiles(arg.manifest[j][1])
                         \cup ManifestFiles(arg.manifest[j][2]) :
                            j \in DOMAIN arg.manifest}
      [] OTHER -> {}

\* Tasks that update a nested collection a declared INOUT: collections in a
\* collection, collections as the values of a keyed collection, a keyed
\* collection in a collection.
CollectionInvocations ==
    {[task |-> TaskOf([args |-> [x \in {"a"} |-> Annotation(kind, "INOUT")],
                       numba |-> FALSE, tracing_hook |-> FALSE, target_direction |-> "INOUT"],
                      "RETRY", EmptyDict, FALSE, FALSE, 0, EmptyDict,
                      "collections"),
      args |-> <<ArgA(kind)>> \o ReturnArgs(1),
      files |-> Merge(FilesOfA(kind, "INOUT"),
                      [f \in ManifestFiles(ArgA(kind)) |->
                          <<"manifest", f>>])] :
        kind \in {"nested_collection", "dict_of_collections",
                  "collection_of_dicts"}}

\* The number of elements of the collection of an MPI task.
MpiElements == 4

\* The name of element k of that collection, its file and its value.
ElementName(k) == <<"0", "1", "2", "3", "4", "5">>[k + 1]
ElementFile(k) == "a." \o ElementName(k) \o ".f"
ElementValue(k) == "e" \o ElementName(k)

\* The collection a of MpiElements objects as the engine sends it.
MpiCollection ==
    Parameter("a", "COLLECTION", "a.col", PyNone,
        [j \in 1..MpiElements |->
            TypedLine("@a." \o ElementName(j - 1), ElementFile(j - 1), "int")])

\* The layouts of a: none, two offsets for each of two processes, or one
\* offset for the first process and two for the second.
Layouts ==
    {EmptyDict,
     [x \in {"a"} |-> [rank \in {0, 1} |-> IF rank = 0 THEN {0, 1}
                                            ELSE {2, 3}]],
     [x \in {"a"} |-> [rank \in {0, 1} |-> IF rank = 0 THEN {2}
                                            ELSE {0, 3}]]}

\* Tasks with the collection a declared IN, run as an ordinary task or as
\* one process of an MPI task, with and without a layout for a; one of the
\* element files may be missing.
MpiInvocations ==
    {[task |-> TaskOf([args |-> [x \in {"a"} |->
                                    Annotation("collection", "IN")],
                       numba |-> FALSE, tracing_hook |-> FALSE, target_direction |-> "INOUT"],
                      "RETRY", EmptyDict, FALSE, c.mpi, c.rank, c.layouts,
                      "collections"),
      args |-> <<MpiCollection>> \o ReturnArgs(1),
      files |-> [f \in {ElementFile(k) : k \in 0..(MpiElements - 1)}
                       \ {c.missing} |->
                    <<"pickle", ElementValue(
                        CHOOSE k \in 0..(MpiElements - 1) :
                            ElementFile(k) = f)>>]] :
        c \in {x \in [mpi : BOOLEAN, rank : {0, 1}, layouts : Layouts,
                      missing : {NoFile}
                          \cup {ElementFile(k) : k \in 0..(MpiElements - 1)}] :
                  x.mpi \/ x.rank = 0}}

\* Processes of MPI tasks that update the collection a: it is declared
\* INOUT, COMMUTATIVE or OUT (no element file exists yet for OUT).
MpiUpdateInvocations ==
    {[task |-> TaskOf([args |-> [x \in {"a"} |->
                                    Annotation("collection", c.direction)],
                       numba |-> FALSE, tracing_hook |-> FALSE,
                       target_direction |-> "INOUT"],
                      "RETRY", EmptyDict, FALSE, TRUE, c.rank, c.layouts,
                      "collections"),
      args |-> <<MpiCollection>> \o ReturnArgs(1),
      files |-> IF c.direction = "OUT" THEN EmptyDict
                ELSE [f \in {ElementFile(k) : k \in 0..(MpiElements - 1)} |->
                         <<"pickle", ElementValue(
                             CHOOSE k \in 0..(MpiElements - 1) :
                                 ElementFile(k) = f)>>]] :
        c \in [direction : {"INOUT", "COMMUTATIVE", "OUT"}, rank : {0, 1},
               layouts : Layouts]}

\* Tasks with one INOUT object a, run with or without tracing, with or
\* without the request to keep the tracing hook (tracing_hook of the
\* decorator, COMPSS_TRACING_HOOK of the environment), with or without numba.
TracingInvocations ==
    {[task |-> [TaskOf([args |-> [x \in {"a"} |-> Annotation("object", "INOUT")],
                        numba |-> c.numba, tracing_hook |-> c.tracing_hook,
                        target_direction |-> "INOUT"],
                       c.on_failure, EmptyDict, FALSE, FALSE, 0, EmptyDict, "f")
                   EXCEPT !.compss_tracing = c.tracing,
                          !.global_tracing_hook = c.global_tracing_hook],
      args |-> <<Parameter("a", "FILE", "a.f", PyNone, <<>>)>>,
      files |-> [f \in {"a.f"} |-> <<"pickle", "old">>]] :
        c \in [on_failure : {"RETRY", "IGNORE"}, numba : BOOLEAN,
               tracing : BOOLEAN, tracing_hook : BOOLEAN,
               global_tracing_hook : BOOLEAN]}

\* The keyed collection of DictEntries entries a task is given: the lines
\* of its keys name objects of the Python types key_types.
DictEntries == 2

DictKeyFile(j) == "a.k" \o <<"0", "1", "2">>[j] \o ".f"

DictValueFile(j) == "a.v" \o <<"0", "1", "2">>[j] \o ".f"

DictArg(key_types) ==
    Parameter("a", "DICT_COLLECTION", "a.dict", PyNone,
        [j \in 1..DictEntries |->
            <<TypedLine("@keya.0", DictKeyFile(j), key_types[j]),
              TypedLine("@valuea.0", DictValueFile(j), "int")>>])

\* Tasks with one keyed collection a of depth 1, for every direction, whose
\* keys are all strings or strings and integers; the keys in the files
\* differ from each other, as the keys of a dictionary do.
DictInvocations ==
    {[task |-> TaskOf([args |-> [x \in {"a"} |->
                                    Annotation("dict_collection", c.direction)],
                       numba |-> FALSE, tracing_hook |-> FALSE,
                       target_direction |-> "INOUT"],
                      "RETRY", EmptyDict, FALSE, FALSE, 0, EmptyDict,
                      "collections"),
      args |-> <<DictArg(c.key_types)>> \o ReturnArgs(1),
      files |-> Merge(IF c.direction = "OUT" THEN EmptyDict
                      ELSE [f \in {DictKeyFile(j) : j \in 1..DictEntries}
                                  \cup {DictValueFile(j) : j \in 1..DictEntries} |->
                               <<"pickle",
                                 (IF f \in {DictKeyFile(j) : j \in 1..DictEntries}
                                  THEN "key" ELSE "old") \o f>>],
                      [f \in {"a.dict"} |-> <<"manifest", f>>])] :
        c \in [direction : Directions,
               key_types : {[j \in 1..DictEntries |-> "str"],
                            [j \in 1..DictEntries |->
                                IF j = 1 THEN "str" ELSE "int"]}]}

Invocations ==
    ReturnsInvocations \cup SelfInvocations \cup CollectionInvocations
    \cup MpiInvocations \cup TracingInvocations \cup DictInvocations
    \cup MpiUpdateInvocations

\* The engine calls TaskWorker.call for one of these tasks.
ReceiveInvocation ==
    /\ wpc = "idle"
    /\ \E inv \in Invocations :
          /\ task' = inv.task
          /\ task_args' = inv.args
          /\ files' = inv.files
    /\ wpc' = "reveal_objects"
    /\ trace' = <<>>
    /\ wlocal' = NoLocals
    /\ UNCHANGED <<tracker_vars, held, last, issued, first_track, thread_vars,
                   profile>>

NextInvocation ==
    \/ ReceiveInvocation
    \/ RevealObjects
    \/ RetrieveContent
    \/ ExecuteUserCode
    \/ ManageDefaults
    \/ ManageInouts
    \/ RaiseCompssException
    \/ ManageReturns
    \/ ManageNewTypesValues

SpecInvocation == Init /\ [][NextInvocation]_vars

-----------------------------------------------------------------------------
(* Properties of one invocation.                                           *)

\* The place of a step in the order of TaskWorker.call.
Rank(step) ==
    CASE step \in {"reveal_objects", "retrieve_content"} -> 1
      [] step = "user_function" -> 2
      [] step = "manage_defaults" -> 3
      [] step = "manage_inouts" -> 4
      [] step = "raise" -> 5
      [] step = "manage_returns" -> 6
      [] step = "manage_new_types_values" -> 7
      [] OTHER -> 0

\* The positions of trace at which a step was taken.
Steps(step) == {k \in DOMAIN trace : trace[k].step = step}

\* The names of the parameters that are no returns.
Revealable == {task_args[j].name : j \in {k \in DOMAIN task_args :
                                            ~is_return(task_args[k].name)}}

\* C13: the phases of an invocation happen at most once each and in the
\* order REVEALING, EXECUTING, POST_PROCESSING (manage_defaults, then
\* manage_inouts, then manage_returns), REPORTING; the user function is not
\* invoked before every parameter that is no return has been revealed, and
\* the result message is built after all the serialization of the
\* post-processing, as the last step before DONE.
C13_PhaseOrder ==
    /\ \A j, k \in DOMAIN trace :
          (j < k /\ Rank(trace[j].step) # 0 /\ Rank(trace[k].step) # 0)
          => Rank(trace[j].step) <= Rank(trace[k].step)
    /\ \A step \in {"reveal_objects", "user_function", "manage_defaults",
                    "manage_inouts", "manage_returns",
                    "manage_new_types_values"} :
          Cardinality(Steps(step)) <= 1
    /\ \A k \in Steps("user_function") :
          \A name \in Revealable :
              \E j \in Steps("retrieve_content") :
                  j < k /\ trace[j].what = name
    /\ \A k \in Steps("manage_new_types_values") :
          /\ \A j \in Steps("serialize_to_file") : j < k
          /\ \E j \in Steps("manage_inouts") : j < k
          /\ \E j \in Steps("manage_returns") : j < k
          /\ k = Len(trace)
    /\ (wpc = "DONE") = (Steps("manage_new_types_values") # {})
    /\ wpc = "DONE" => wlocal.exception = NoException
    /\ wpc = "FAILED" => wlocal.exception # NoException /\ wlocal.result = <<>>

\* An invocation that went through every phase: defaults were substituted,
\* a parameter and the return were serialized and the message was built.
C13_Witness ==
    /\ wpc = "DONE"
    /\ Steps("manage_defaults") # {}
    /\ Cardinality(Steps("serialize_to_file")) >= 2
    /\ Len(wlocal.result) = 3

\* The invocation is over.
Ended == wpc \in {"DONE", "FAILED"}

\* The outcome of the body of the user function, once it has been invoked.
BodyRaised(outcome) ==
    \E k \in Steps("user_function") : trace[k].what = outcome

\* The parameter a is a file the task writes, and the defaults of the task
\* name a default file for it (every choice of defaults that does also names
\* a default return).
FileOutputWithDefault ==
    /\ "a" \in DOMAIN task.decorator_arguments.args
    /\ task.decorator_arguments.args["a"].content_type = "FILE"
    /\ task.decorator_arguments.args["a"].direction \in {"OUT", "INOUT"}
    /\ "a" \in DOMAIN task.defaults

\* C14: when the body raises COMPSsException in a task with a default return
\* R and a default file F for its output file, the invocation ends with R
\* serialized as the return value and with the output file holding the bytes
\* of F, whatever on_failure is and whatever the body did before raising.
C14_CancellationDefaults ==
    (Ended /\ BodyRaised("COMPSsException") /\ FileOutputWithDefault)
    => /\ "a.f" \in DOMAIN files
       /\ files["a.f"] = files["a.default"]
       /\ "ret.f" \in DOMAIN files
       /\ files["ret.f"] = <<"pickle", "default_return">>

\* C15: when the body raises COMPSsException, call ends by raising that
\* exception with the target direction of the task on it, after
\* manage_inouts has run, without serializing a return value and without
\* building a result message.
C15_CancellationReraised ==
    (Ended /\ BodyRaised("COMPSsException"))
    => /\ wpc = "FAILED"
       /\ wlocal.exception.type = "COMPSsException"
       /\ wlocal.exception.target_direction =
              task.decorator_arguments.target_direction
       /\ \E k \in Steps("raise") : \E j \in Steps("manage_inouts") : j < k
       /\ Steps("manage_returns") = {}
       /\ "ret.f" \notin DOMAIN files
       /\ wlocal.result = <<>>

\* The steps of the post-processing and of the reporting.
PostProcessing == {"manage_defaults", "manage_inouts", "serialize_to_file",
                   "manage_returns", "manage_new_types_values"}

\* C16: when the body raises an exception that is no COMPSsException, under
\* on_failure IGNORE the defaults are substituted and the invocation goes on
\* through manage_inouts, manage_returns and the result message to DONE;
\* under every other policy the exception leaves call unchanged, the
\* invocation is FAILED and no step of the post-processing is taken.
C16_OtherException ==
    (Ended /\ BodyRaised("Exception"))
    => /\ task.on_failure = "IGNORE"
          => /\ wpc = "DONE"
             /\ wlocal.default_values = task.defaults
             /\ DOMAIN task.defaults # {} => Steps("manage_defaults") # {}
             /\ \A step \in {"manage_inouts", "manage_returns",
                             "manage_new_types_values"} : Steps(step) # {}
             /\ wlocal.result # <<>>
       /\ task.on_failure # "IGNORE"
          => /\ wpc = "FAILED"
             /\ wlocal.exception = Error("Exception")
             /\ \A step \in PostProcessing : Steps(step) = {}
             /\ wlocal.result = <<>>

\* The direction the task declares for the parameter at position i.
DirectionOf(i) ==
    decorator_argument(task.decorator_arguments, task_args[i].name).direction

\* The step about to be taken is the resolution of a parameter that is not
\* declared OUT, and it fails: the batched getByID of reveal_objects misses
\* a persistent object, or retrieve_content cannot read the parameter.
RevealFails(i) ==
    /\ ~is_return(task_args[i].name)
    /\ DirectionOf(i) # "OUT"
    /\ \/ /\ wpc = "reveal_objects"
          /\ task.storage_supports_pipelining
          /\ task_args[i].content_type = "EXTERNAL_PSCO"
          /\ task_args[i].content \notin task.storage
       \/ /\ wpc = "retrieve_content"
          /\ wlocal.i = i
          /\ retrieve_content(task, files, task_args[i], 0).err # NoError

\* C17: when the resolution of a parameter that is no return and is not
\* declared OUT fails, the invocation is FAILED by that very step: the user
\* function has not been and is not invoked, no file is written, no result
\* message is built, the parameter was given to retrieve_content at most
\* once, and nothing happens after FAILED.
C17_RevealFailure ==
    [][/\ \A i \in DOMAIN task_args :
            RevealFails(i)
            => /\ wpc' = "FAILED"
               /\ wlocal'.exception.type
                      \in {"SerializerException", "StorageException"}
               /\ wlocal'.result = <<>>
               /\ files' = files
               /\ \A k \in DOMAIN trace' :
                      trace'[k].step \in {"reveal_objects", "retrieve_content"}
               /\ Cardinality({k \in DOMAIN trace' :
                      trace'[k] = Event("retrieve_content", task_args[i].name)})
                  <= 1
       /\ wpc = "FAILED" => UNCHANGED worker_vars]_vars

\* The file of b is missing: a was revealed, the reveal of b failed.
C17_Witness ==
    /\ wpc = "FAILED"
    /\ wlocal.exception.type = "SerializerException"
    /\ Len(trace) = 3
    /\ trace[2] = Event("retrieve_content", "a")
    /\ trace[3] = Event("retrieve_content", "b")
    /\ "b.f" \notin DOMAIN files

RECURSIVE ExchangeFiles(_)

\* The exchange files of a parameter as the engine lists them: its own file,
\* or the files of the leaves of a collection or of a keyed collection, at
\* every depth.
ExchangeFiles(arg) ==
    CASE arg.content_type = "COLLECTION" ->
             UNION {ExchangeFiles(arg.manifest[j]) : j \in DOMAIN arg.manifest}
      [] arg.content_type = "DICT_COLLECTION" ->
             UNION {ExchangeFiles(arg.manifest[j][1])
                    \cup ExchangeFiles(arg.manifest[j][2]) :
                       j \in DOMAIN arg.manifest}
      [] OTHER -> {arg.file_name} \ {NoFile}

\* The parameter at position i is an object parameter (no file, no file
\* collection, no persistent object) declared INOUT or COMMUTATIVE, or a
\* collection or keyed collection of objects declared OUT.
IsWriteBackParameter(i) ==
    LET arg == task_args[i]
        declared == arg.name \in DOMAIN task.decorator_arguments.args
        ann == task.decorator_arguments.args[arg.name]
    IN  /\ declared => ann.content_type # "FILE" /\ ~ann.is_file_collection
        /\ arg.content_type # "EXTERNAL_PSCO"
        /\ ~is_psco(arg.content_type, arg.content)
        /\ \/ DirectionOf(i) \in {"INOUT", "COMMUTATIVE"}
           \/ /\ DirectionOf(i) = "OUT"
              /\ arg.content_type \in {"COLLECTION", "DICT_COLLECTION"}

\* C18: the step manage_inouts serializes to an exchange file of a parameter
\* if and only if the parameter is an object parameter (no file, no file
\* collection, no persistent object) declared INOUT or COMMUTATIVE, or a
\* collection or keyed collection declared OUT; the files of every other
\* parameter, those of the IN parameters among them, are as they were.
C18_WriteBack ==
    [][wpc = "manage_inouts"
       => LET written == {trace'[k].what :
                             k \in {j \in DOMAIN trace' :
                                       /\ j > Len(trace)
                                       /\ trace'[j].step = "serialize_to_file"}}
          IN  \A i \in DOMAIN task_args :
                 LET fs == ExchangeFiles(task_args[i])
                 IN  /\ (fs \cap written # {}) <=> IsWriteBackParameter(i)
                     /\ ~IsWriteBackParameter(i)
                        => \A f \in fs :
                              /\ (f \in DOMAIN files') = (f \in DOMAIN files)
                              /\ f \in DOMAIN files => files'[f] = files[f]
                     /\ DirectionOf(i) = "IN" => fs \cap written = {}]_vars

RECURSIVE LeafContents(_, _)

\* The leaves of a collection or of a keyed collection, at every depth, each
\* as the pair of its exchange file and of its content after the execution;
\* line is the entry of the collection as the engine lists it.
LeafContents(content, line) ==
    CASE line.content_type = "COLLECTION" ->
             UNION {LeafContents(content[j], line.manifest[j]) :
                       j \in DOMAIN line.manifest \cap DOMAIN content}
      [] line.content_type = "DICT_COLLECTION" ->
             UNION {LeafContents(content[j][1], line.manifest[j][1])
                    \cup LeafContents(content[j][2], line.manifest[j][2]) :
                       j \in DOMAIN line.manifest \cap DOMAIN content}
      [] OTHER -> {<<line.file_name, content>>}

\* C19: when manage_inouts serializes back a collection or a keyed
\* collection (INOUT, COMMUTATIVE or OUT), every leaf at every depth that
\* has a file and whose content is no persistent object is reached and
\* serialized to its file, and nothing is written to the file of a leaf whose content
\* after the execution is a persistent object.
C19_CollectionLeaves ==
    [][(wpc = "manage_inouts" /\ wpc' # "FAILED")
       => LET written == {trace'[k].what :
                             k \in {j \in DOMAIN trace' :
                                       /\ j > Len(trace)
                                       /\ trace'[j].step = "serialize_to_file"}}
          IN  \A i \in DOMAIN task_args :
                 (/\ IsWriteBackParameter(i)
                  /\ task_args[i].content_type
                         \in {"COLLECTION", "DICT_COLLECTION"})
                 => \A leaf \in LeafContents(task_args[i].content, task_args[i]) :
                       IF is_psco(PyNone, leaf[2])
                       THEN /\ leaf[1] \notin written
                            /\ (leaf[1] \in DOMAIN files')
                                   = (leaf[1] \in DOMAIN files)
                            /\ leaf[1] \in DOMAIN files
                               => files'[leaf[1]] = files[leaf[1]]
                       ELSE leaf[1] # NoFile
                            => /\ leaf[1] \in written
                               /\ leaf[1] \in DOMAIN files']_vars

\* C20: the step manage_defaults raises nothing and overwrites exactly the
\* parameters declared OUT or INOUT that have a configured default: an
\* object gets the default as its content, a file gets the bytes of the
\* default file; a parameter declared IN and a parameter without a
\* configured default keep their content and their files.
C20_DefaultsByDirection ==
    [][wpc = "manage_defaults"
       => /\ wpc' # "FAILED"
          /\ \A i \in DOMAIN task_args :
                LET arg == task_args[i]
                    is_file == /\ arg.name \in DOMAIN task.decorator_arguments.args
                               /\ task.decorator_arguments.args[arg.name]
                                      .content_type = "FILE"
                IN  IF /\ ~is_return(arg.name)
                       /\ DirectionOf(i) \in {"OUT", "INOUT"}
                       /\ arg.name \in DOMAIN wlocal.default_values
                    THEN IF is_file
                         THEN /\ arg.file_name \in DOMAIN files'
                              /\ files'[arg.file_name] =
                                     files[wlocal.default_values[arg.name]]
                         ELSE task_args'[i].content =
                                  wlocal.default_values[arg.name]
                    ELSE /\ task_args'[i] = arg
                         /\ \A f \in ExchangeFiles(arg) :
                               /\ (f \in DOMAIN files') = (f \in DOMAIN files)
                               /\ f \in DOMAIN files
                                  => files'[f] = files[f]]_vars

-----------------------------------------------------------------------------
(* Properties of the results and of the message of an invocation.          *)

\* The files written by serialize_to_file in the step being taken.
WrittenByStep ==
    {trace'[k].what : k \in {j \in DOMAIN trace' :
                                /\ j > Len(trace)
                                /\ trace'[j].step = "serialize_to_file"}}

\* C21: the step manage_returns raises nothing; with n > 0 declared return
\* parameters it leaves a sequence of n values, the i-th of which is
\* serialized to the file of the i-th return parameter unless it is a
\* persistent object, whose file is not written; with no declared return
\* nothing is written.  This holds for ordinary and MPI tasks, when the
\* body returned None and when the default return was substituted.
C21_ReturnsNormalized ==
    [][wpc = "manage_returns"
       => LET params == ret_params(task_args)
              n == Len(params)
          IN  /\ wpc' # "FAILED"
              /\ n = 0 => WrittenByStep = {}
              /\ n > 0
                 => /\ Len(wlocal'.user_returns) = n
                    /\ \A i \in 1..n :
                          LET f == params[i].file_name
                              obj == wlocal'.user_returns[i]
                          IN  IF is_psco(PyNone, obj)
                              THEN /\ f \notin WrittenByStep
                                   /\ f \notin DOMAIN files'
                              ELSE /\ f \in DOMAIN files'
                                   /\ files'[f] = <<"pickle", obj>>]_vars

\* The positions in task_args of the parameters that are neither the
\* receiver nor a return, in the order of the declaration.
ParameterPositions ==
    SelectSeq([i \in DOMAIN task_args |-> i],
              LAMBDA i : /\ isinstance_Parameter(task_args[i])
                         /\ ~is_return(task_args[i].name))

HasSelf == Len(task_args) > 0 /\ ~isinstance_Parameter(task_args[1])

\* C22: the step manage_new_types_values ends the call with a message that
\* has one entry for every parameter that is no return, in the order of the
\* declaration, then one entry for the receiver when there is one, then one
\* entry for every declared return, whatever the body returned; every entry
\* is a pair of a type and a value.
C22_MessageShape ==
    [][wpc = "manage_new_types_values"
       => LET pos == ParameterPositions
              self_entries == IF HasSelf THEN 1 ELSE 0
              num_returns == Len(ret_params(task_args))
              result == wlocal'.result
          IN  /\ wpc' = "DONE"
              /\ Len(result) = Len(pos) + self_entries + num_returns
              /\ \A k \in DOMAIN pos :
                    result[k][1] \in {task_args[pos[k]].content_type,
                                      "EXTERNAL_PSCO"}
              /\ HasSelf => result[Len(pos) + 1][1] \in {"FILE", "EXTERNAL_PSCO"}
              /\ \A k \in 1..num_returns :
                    result[Len(pos) + self_entries + k][1]
                        \in {"FILE", "EXTERNAL_PSCO", "COLLECTION"}]_vars

\* C23: in the message of a call that returns, the entry of every parameter
\* that is neither a return nor a collection is (EXTERNAL_PSCO, id of the
\* object) when its content after the execution is a persistent object,
\* whatever type it arrived with, and (the type it arrived with, 'null')
\* when it is not.
C23_ParameterReport ==
    [][(wpc = "manage_new_types_values" /\ wpc' = "DONE")
       => LET pos == ParameterPositions
          IN  \A k \in DOMAIN pos :
                 LET arg == task_args[pos[k]]
                     entry == wlocal'.result[k]
                 IN  arg.content_type \notin {"COLLECTION", "DICT_COLLECTION"}
                     => IF is_psco(PyNone, arg.content)
                        THEN /\ entry[1] = "EXTERNAL_PSCO"
                             /\ entry[2] = getID(arg.content)
                        ELSE /\ entry[1] = arg.content_type
                             /\ entry[2] = "null"]_vars

\* A call has returned a message in which an object that arrived in a file
\* and was made persistent by the body is reported as a persistent object.
C23_Witness ==
    /\ wpc = "DONE"
    /\ \E k \in DOMAIN ParameterPositions :
          LET arg == task_args[ParameterPositions[k]]
          IN  /\ arg.content_type = "FILE"
              /\ is_psco(PyNone, arg.content)
              /\ wlocal.result[k][1] = "EXTERNAL_PSCO"
              /\ wlocal.result[k][2] = "id_new"

\* C24: for a method, call saves the type and the value of the receiver as
\* they are before the user function runs ((EXTERNAL_PSCO, id) for a
\* persistent object, (FILE, 'null') otherwise).  When the target direction
\* is INOUT the entry of the receiver in the message tells what the
\* receiver is after the execution; for every other target direction the
\* entry is the saved type and value, also when the body made the receiver
\* persistent.
C24_ReceiverReport ==
    [][/\ (wpc = "execute_user_code" /\ wpc' # "FAILED" /\ HasSelf)
          => LET receiver == task_args[1].content
             IN  /\ wlocal'.self.self_type =
                        IF is_psco(PyNone, receiver)
                        THEN "EXTERNAL_PSCO" ELSE "FILE"
                 /\ wlocal'.self.self_value =
                        IF is_psco(PyNone, receiver)
                        THEN getID(receiver) ELSE "null"
       /\ (wpc \in {"manage_defaults", "manage_inouts", "manage_returns"}
           /\ HasSelf)
          => wlocal'.self = wlocal.self \/ wpc' = "FAILED"
       /\ (wpc = "manage_new_types_values" /\ wpc' = "DONE" /\ HasSelf)
          => LET receiver == task_args[1].content
                 entry == wlocal'.result[Len(ParameterPositions) + 1]
             IN  IF task.decorator_arguments.target_direction = "INOUT"
                 THEN IF is_psco(PyNone, receiver)
                      THEN /\ entry[1] = "EXTERNAL_PSCO"
                           /\ entry[2] = getID(receiver)
                      ELSE /\ entry[1] = "FILE"
                           /\ entry[2] = "null"
                 ELSE /\ entry[1] = wlocal.self.self_type
                      /\ entry[2] = wlocal.self.self_value]_vars

\* A method whose target direction is not INOUT has returned; its body made
\* the receiver persistent and the message says (FILE, 'null').
C24_Witness ==
    /\ wpc = "DONE"
    /\ HasSelf
    /\ task.decorator_arguments.target_direction # "INOUT"
    /\ task_args[1].content = "psco"
    /\ wlocal.result[Len(ParameterPositions) + 1][1] = "FILE"
    /\ wlocal.result[Len(ParameterPositions) + 1][2] = "null"

\* C25: when manage_inouts has serialized back a collection or a keyed
\* collection declared INOUT whose elements the body has changed (no
\* defaults substituted), every leaf at every depth, also under collections
\* that are values of a keyed collection and under keyed collections that
\* are elements of a collection, can be deserialized from its exchange file
\* and the result is the content the leaf has after the execution.
C25_RoundTrip ==
    [][(/\ wpc = "manage_inouts"
        /\ wpc' # "FAILED"
        /\ DOMAIN wlocal.default_values = {})
       => \A i \in DOMAIN task_args :
             (/\ isinstance_Parameter(task_args[i])
              /\ ~is_return(task_args[i].name)
              /\ DirectionOf(i) = "INOUT"
              /\ task_args[i].content_type \in {"COLLECTION", "DICT_COLLECTION"}
              /\ ~is_parameter_file_collection(task.decorator_arguments,
                                               task_args[i].name))
             => \A leaf \in LeafContents(task_args[i].content, task_args[i]) :
                   (leaf[1] # NoFile /\ ~is_psco(PyNone, leaf[2]))
                   => /\ can_deserialize(files', leaf[1])
                      /\ deserialize_from_file(files', leaf[1]) = leaf[2]]_vars

\* The leaves of the collection at position i whose content is the changed
\* value.
ChangedLeaves(i) ==
    {leaf \in LeafContents(task_args[i].content, task_args[i]) :
        leaf[2] = "new"}

\* C26: for a keyed collection declared INOUT with two keys whose values are
\* collections of two elements, of which the body changed exactly one leaf,
\* manage_inouts leaves exactly one leaf file with another content than
\* before, the file of the changed leaf, which holds the changed value; no
\* file that lists the elements of a collection is written; and the message
\* has the entry of the keyed collection.
C26_OneChangedLeaf ==
    [][/\ (/\ wpc = "manage_inouts"
           /\ Len(task_args) > 0
           /\ task_args[1].content_type = "DICT_COLLECTION"
           /\ DirectionOf(1) = "INOUT"
           /\ Len(task_args[1].manifest) = 2
           /\ \A j \in 1..2 :
                 /\ task_args[1].manifest[j][2].content_type = "COLLECTION"
                 /\ Len(task_args[1].manifest[j][2].manifest) = 2
           /\ Cardinality(ChangedLeaves(1)) = 1)
          => /\ wpc' # "FAILED"
             /\ ManifestFiles(task_args[1]) \cap WrittenByStep = {}
             /\ \A leaf \in LeafContents(task_args[1].content, task_args[1]) :
                   /\ can_deserialize(files', leaf[1])
                   /\ deserialize_from_file(files', leaf[1]) = leaf[2]
                   /\ (files'[leaf[1]] # files[leaf[1]])
                      <=> leaf \in ChangedLeaves(1)
       /\ (/\ wpc = "manage_new_types_values"
           /\ Len(task_args) > 0
           /\ task_args[1].content_type = "DICT_COLLECTION")
          => /\ wpc' = "DONE"
             /\ wlocal'.result[1][1] = "DICT_COLLECTION"]_vars

-----------------------------------------------------------------------------
(* Properties of the resolution of collections.                            *)

RECURSIVE Placeholders(_, _)

\* The content of an OUT collection of that depth whose file has the lines
\* of line.manifest: one empty instance of the type named on each line of
\* the last layer.
Placeholders(line, depth) ==
    [j \in DOMAIN line.manifest |->
        IF depth = 1 THEN line.manifest[j].con_type \o "()"
        ELSE Placeholders(line.manifest[j], depth - 1)]

InMpiCollectionEnv(i) ==
    /\ task.compss_python_MPI
    /\ task_args[i].name \in DOMAIN task.compss_collections_layouts

\* The lines of the collection at position i that this worker has to
\* resolve, in the order of the file: those whose offset the layout gives to
\* its rank, or all of them without a layout.
RelevantLines(i) ==
    SelectSeq([j \in DOMAIN task_args[i].manifest |-> j],
              LAMBDA j :
                  InMpiCollectionEnv(i)
                  => (j - 1) \in task.compss_collections_layouts
                                     [task_args[i].name][task.rank])

\* The step about to be taken resolves the collection of objects at
\* position i, which is not declared OUT.
ResolvesCollection(i) ==
    /\ wpc = "retrieve_content"
    /\ wlocal.i = i
    /\ task_args[i].content_type = "COLLECTION"
    /\ DirectionOf(i) # "OUT"
    /\ ~is_parameter_file_collection(task.decorator_arguments,
                                     task_args[i].name)
    /\ \A j \in DOMAIN task_args[i].manifest :
          task_args[i].manifest[j].content_type = "FILE"

\* C28: the resolution of a collection reads the exchange files of exactly
\* the lines this worker has to resolve: it fails if and only if one of
\* those files cannot be read.  With a layout in an MPI task a missing file
\* of an element given only to another rank does no harm and a missing file
\* of an own element makes it fail; without a layout every element is read.
C28_PartitionReads ==
    [][\A i \in DOMAIN task_args :
          ResolvesCollection(i)
          => LET rel == RelevantLines(i)
                 readable == \A k \in DOMAIN rel :
                                can_deserialize(files,
                                    task_args[i].manifest[rel[k]].file_name)
             IN  /\ (wpc' # "FAILED") <=> readable
                 /\ ~InMpiCollectionEnv(i)
                    => Len(rel) = Len(task_args[i].manifest)
                 /\ wpc' # "FAILED"
                    => /\ Len(task_args'[i].collection_content) = Len(rel)
                       /\ \A k \in DOMAIN rel :
                             task_args'[i].collection_content[k].file_name
                                 = task_args[i].manifest[rel[k]].file_name]_vars

\* On rank 0 of an MPI task whose layout gives it the offsets 0 and 1 of a
\* collection of four, the collection has been resolved although the file of
\* element 2 is missing.
C28_Witness ==
    /\ wpc = "execute_user_code"
    /\ Len(task_args) > 0
    /\ task_args[1].name = "a"
    /\ InMpiCollectionEnv(1)
    /\ task.rank = 0
    /\ task.compss_collections_layouts["a"][0] = {0, 1}
    /\ Len(task_args[1].manifest) >= 4
    /\ task_args[1].manifest[3].file_name \notin DOMAIN files
    /\ Len(task_args[1].collection_content) = 2
    /\ task_args[1].content = <<"e0", "e1">>

\* C29: after the resolution of a collection, when the layout leaves this
\* worker exactly one element the content of the parameter is that element
\* itself; when it leaves two or more, or when there is no layout, the
\* content is the sequence of the elements it has to resolve, in the order
\* of the file.
C29_SingleElement ==
    [][\A i \in DOMAIN task_args :
          (ResolvesCollection(i) /\ wpc' # "FAILED")
          => LET rel == RelevantLines(i)
                 value(k) == deserialize_from_file(files,
                                 task_args[i].manifest[rel[k]].file_name)
             IN  IF InMpiCollectionEnv(i) /\ Len(rel) = 1
                 THEN /\ task_args'[i].content_type # "COLLECTION"
                      /\ task_args'[i].content = value(1)
                 ELSE /\ task_args'[i].content_type = "COLLECTION"
                      /\ task_args'[i].content = [k \in DOMAIN rel |-> value(k)]
       ]_vars

\* The process of an MPI task whose layout gives it the single offset 2 has
\* resolved the collection to element 2 itself.
C29_Witness ==
    /\ wpc = "execute_user_code"
    /\ Len(task_args) > 0
    /\ task_args[1].name = "a"
    /\ InMpiCollectionEnv(1)
    /\ task.compss_collections_layouts["a"][task.rank] = {2}
    /\ task_args[1].content = "e2"

RECURSIVE ReferencesResolved(_)

\* Every reference to a persistent object in the revealed parameter, at the
\* top or among the elements of a collection or of a keyed collection,
\* holds a persistent object.
ReferencesResolved(arg) ==
    CASE arg.content_type = "EXTERNAL_PSCO" -> is_psco(PyNone, arg.content)
      [] arg.content_type = "COLLECTION" ->
             \A j \in DOMAIN arg.collection_content :
                 ReferencesResolved(arg.collection_content[j])
      [] arg.content_type = "DICT_COLLECTION" ->
             \A j \in DOMAIN arg.dict_collection_content :
                 /\ ReferencesResolved(arg.dict_collection_content[j][1])
                 /\ ReferencesResolved(arg.dict_collection_content[j][2])
      [] OTHER -> TRUE

\* C30: when reveal_objects has run and the user function is about to be
\* called, every reference to a persistent object among the parameters that
\* are not declared OUT, at the top or nested in a collection, has the
\* object fetched from the storage as its content and not the identifier,
\* with a storage that supports pipelining as well as with one that does
\* not.
C30_ReferencesResolved ==
    wpc = "execute_user_code"
    => \A i \in DOMAIN task_args :
          (/\ isinstance_Parameter(task_args[i])
           /\ ~is_return(task_args[i].name)
           /\ DirectionOf(i) # "OUT"
           /\ ~is_parameter_file_collection(task.decorator_arguments,
                                            task_args[i].name))
          => ReferencesResolved(task_args[i])

\* The task of the invocation with the numba dispatch switched on or off.
WithNumba(tw, numba) == [tw EXCEPT !.decorator_arguments.numba = numba]

\* C31: when the user function is about to be called, for every outcome of
\* its body (normal return, COMPSsException, another exception) the call
\* through numba and the plain call leave execute_user_code in the same
\* way: the same arguments and files, the same user_returns, the same
\* compss_exception, the same default values and the same error, so that
\* the phases that follow, the files written and the message or exception
\* delivered are the same.
C31_NumbaSubstitution ==
    wpc = "execute_user_code"
    => \A body \in BodiesOf(task.user_function) :
          execute_user_code(WithNumba(task, TRUE), task_args, files, body)
              = execute_user_code(WithNumba(task, FALSE), task_args, files, body)

\* C32: an identifier leaves pending_to_synchronize only in a call of
\* clean_object_tracker or in a call of stop_tracking on the object that
\* has this identifier, and enters it only in a call of track on an object
\* that is not a collection, which returns it, or in a call of
\* set_pending_to_synchronize with it; not_track, pop_written_obj and
\* update_mapping leave the set as it is.
C32_PendingStays ==
    [][\A obj_id \in pending_to_synchronize \cup pending_to_synchronize' :
          /\ (obj_id \in pending_to_synchronize
              /\ obj_id \notin pending_to_synchronize')
             => \/ last'.op = "clean_object_tracker"
                \/ /\ last'.op = "stop_tracking"
                   /\ last'.before.tracked = obj_id
          /\ (obj_id \notin pending_to_synchronize
              /\ obj_id \in pending_to_synchronize')
             => \/ /\ last'.op = "track"
                   /\ ~last'.collection
                   /\ last'.ret[1] = obj_id
                \/ /\ last'.op = "set_pending_to_synchronize"
                   /\ last'.obj_id = obj_id]_vars

\* A written identifier that is pending has been popped, and is pending
\* still.
C32_Witness ==
    /\ last.op = "pop_written_obj"
    /\ last.err = NoError
    /\ last.obj_id \in pending_to_synchronize

\* C33: in the step in which execute_user_code is left, whether it returns
\* (normal return of the body, COMPSsException, another exception that is
\* ignored) or raises (another exception that is propagated), the profile
\* function is the one that was installed when the method was entered, also
\* when the method has taken it out for the user code.
C33_HookRestored ==
    [][wpc = "execute_user_code" /\ wpc' # wpc => profile' = profile]_vars

\* C34: a call of stop_tracking on a tracked object either returns with the
\* identifier of the object in none of file_names, pending_to_synchronize
\* and obj_id_to_obj and with the object not tracked, or raises and leaves
\* the five tables as they were before the call; this holds for an
\* identifier given by track as well as for one given by update_mapping.
C34_StopTrackingAtomic ==
    [][(last'.op = "stop_tracking" /\ last'.before.tracked # None)
       => IF last'.err = NoError
          THEN /\ is_tracked(Tracker', last'.obj) = None
               /\ last'.before.tracked \notin DOMAIN file_names'
               /\ last'.before.tracked \notin pending_to_synchronize'
               /\ last'.before.tracked \notin DOMAIN obj_id_to_obj'
          ELSE Tables(Tracker') = Tables(Tracker)]_vars

\* C35: a call update_mapping(obj_id, obj) with an obj_id that has no entry
\* in file_names raises, and leaves the five tables and current_id as they
\* were: the registration of obj is not replaced, no identifier is added to
\* obj_id_to_obj or address_to_obj_id and no identifier is generated.
C35_UpdateMappingFails ==
    [][(last'.op = "update_mapping" /\ ~last'.before.file)
       => /\ last'.err # NoError
          /\ Tables(Tracker') = Tables(Tracker)
          /\ current_id' = current_id
          /\ last'.fresh = None]_vars

\* The program uses track, stop_tracking, update_mapping, pop_written_obj
\* and clean_object_tracker only.
NextTracked ==
    \/ NewObject
    \/ DropObject
    \/ Track
    \/ StopTracking
    \/ PopWrittenObj
    \/ UpdateMapping
    \/ CleanObjectTracker

SpecTracked == Init /\ [][NextTracked]_vars

\* C36: in every state reached with track, stop_tracking, update_mapping,
\* pop_written_obj and clean_object_tracker, every identifier in
\* pending_to_synchronize or in written_objects has an entry in file_names
\* and every identifier in file_names is a key of obj_id_to_obj; and a call
\* of pop_written_obj with an identifier that was in written_objects
\* returns its file name.
C36_NoStaleIds ==
    /\ pending_to_synchronize \subseteq DOMAIN file_names
    /\ written_objects \subseteq DOMAIN file_names
    /\ DOMAIN file_names \subseteq DOMAIN obj_id_to_obj
    /\ (last.op = "pop_written_obj" /\ last.before.written)
       => /\ last.err = NoError
          /\ last.ret # None

\* The keyed collections among the parameters of the invocation.
KeyedCollections ==
    {i \in DOMAIN task_args :
        /\ isinstance_Parameter(task_args[i])
        /\ ~is_return(task_args[i].name)
        /\ task_args[i].content_type = "DICT_COLLECTION"}

\* C37: when the parameters are revealed, a keyed collection whose file has
\* 2n lines has a content of n entries and n pairs of parameter records,
\* the j-th of them built from the j-th pair of lines and holding the key
\* and the value of the j-th entry, whatever the direction (for OUT at
\* depth 1 they are placeholders); and when manage_inouts starts,
\* __get_dict_collection_objects__ yields for the j-th entry its key with
\* the record of the j-th key line and its value with the record of the
\* j-th value line.
C37_KeyedEntries ==
    \A i \in KeyedCollections :
       LET arg == task_args[i]
           n == Len(arg.manifest)
           objs == get_dict_collection_objects(arg.content, arg)
       IN  /\ wpc = "execute_user_code"
              => /\ Len(arg.content) = n
                 /\ Len(arg.dict_collection_content) = n
                 /\ \A j \in 1..n :
                       /\ arg.dict_collection_content[j][1].file_name
                              = arg.manifest[j][1].file_name
                       /\ arg.dict_collection_content[j][2].file_name
                              = arg.manifest[j][2].file_name
                       /\ arg.content[j]
                              = <<arg.dict_collection_content[j][1].content,
                                  arg.dict_collection_content[j][2].content>>
           /\ wpc = "manage_inouts"
              => /\ objs.err = NoError
                 /\ Len(arg.content) = n
                 /\ \A j \in 1..n :
                       /\ objs.objs[2 * j - 1].content = arg.content[j][1]
                       /\ objs.objs[2 * j - 1].elem.file_name
                              = arg.manifest[j][1].file_name
                       /\ objs.objs[2 * j].elem.file_name
                              = arg.manifest[j][2].file_name

\* The collection at position i has been resolved to the single element the
\* layout leaves to this process of the MPI task.
Collapsed(i) ==
    /\ isinstance_Parameter(task_args[i])
    /\ ~is_return(task_args[i].name)
    /\ Len(task_args[i].manifest) > 0
    /\ InMpiCollectionEnv(i)
    /\ Len(RelevantLines(i)) = 1

\* C38: in the manage_inouts step of an invocation that has resolved a
\* collection declared INOUT, COMMUTATIVE or OUT to its single relevant
\* element, the content of the parameter (the element) is serialized to the
\* exchange file of that element, and the file of the collection, which
\* lists its elements, is not written with a serialized object.
C38_SingleElementWriteBack ==
    [][\A i \in DOMAIN task_args :
          (/\ wpc = "manage_inouts"
           /\ wpc' # "FAILED"
           /\ Collapsed(i)
           /\ DirectionOf(i) \in {"INOUT", "COMMUTATIVE", "OUT"})
          => LET elem == task_args[i].manifest[RelevantLines(i)[1]]
             IN  /\ elem.file_name \in DOMAIN files'
                 /\ files'[elem.file_name] = <<"pickle", task_args[i].content>>
                 /\ task_args[i].file_name \in DOMAIN files'
                    => files'[task_args[i].file_name][1] # "pickle"]_vars

\* A thread enters track(obj, collection) with any object the program
\* holds, also one that another thread is tracking at this moment.
ThreadTrackShared(th) ==
    /\ pc[th] \in {"idle", "done"}
    /\ \E obj \in held, collection \in BOOLEAN :
          frame' = [frame EXCEPT ![th] =
                       [NoFrame EXCEPT !.op = "track", !.obj = obj,
                                       !.collection = collection]]
    /\ pc' = [pc EXCEPT ![th] = "is_tracked"]
    /\ UNCHANGED <<tracker_vars, held, last, issued, first_track, worker_vars>>

NextShared ==
    \/ NewObject
    \/ \E th \in Threads :
          \/ ThreadTrackShared(th)
          \/ ThreadIsTracked(th)
          \/ ThreadNewId(th)
          \/ ThreadLoadCounter(th)
          \/ ThreadStoreCounter(th)
          \/ ThreadInsert(th)
          \/ ThreadFiles(th)

SpecShared == Init /\ [][NextShared]_vars

\* The identifiers under which obj_id_to_obj holds obj.
LiveIds(obj) == {obj_id \in DOMAIN obj_id_to_obj : obj_id_to_obj[obj_id] = obj}

\* C39: when two threads have both returned from track on the same object,
\* however their steps were interleaved, they have got the same identifier,
\* obj_id_to_obj holds the object under exactly one identifier, and
\* file_names and pending_to_synchronize hold no identifier that
\* obj_id_to_obj does not hold.
C39_ConcurrentTrack ==
    \A a, b \in Threads :
        (/\ a # b
         /\ pc[a] = "done" /\ pc[b] = "done"
         /\ frame[a].op = "track" /\ frame[b].op = "track"
         /\ frame[a].obj = frame[b].obj)
        => /\ frame[a].obj_id = frame[b].obj_id
           /\ Cardinality(LiveIds(frame[a].obj)) = 1
           /\ DOMAIN file_names \subseteq DOMAIN obj_id_to_obj
           /\ pending_to_synchronize \subseteq DOMAIN obj_id_to_obj

====
